---- MODULE Spec2Model ----
(***************************************************************************)
(* Model of the books catalog service (conorquin1/books): the MySQL        *)
(* BookRepository, the Redis Cache wrapper, the BookService that composes  *)
(* them (cache-aside reads, fire-and-forget invalidation) and the GetAll   *)
(* controller's page/limit parsing.  Calls run concurrently; every         *)
(* repository statement and every cache command is one atomic step.        *)
(***************************************************************************)
EXTENDS Integers, Sequences, FiniteSets, Bags, TLC

VARIABLES
    rows,       \* the books table: rows[i] is the row with id i (AUTO_INCREMENT)
    cache,      \* the Redis keyspace: key -> [val, ttl]
    tasks,      \* bag of detached goroutines, each a sequence of cache commands
    frames,     \* per client goroutine: the call it runs and its locals
    now,        \* the latest reading of the wall clock (time.Now())
    hasCache,   \* BookService.cache # nil
    nops,       \* number of calls started so far
    solo,       \* the calls arrive one at a time (SpecSeq) or overlap (Spec)
    ver,        \* history: how many times the table contents have changed
    settled,    \* history: the highest table version written by an Update whose
                \* invalidation goroutine has run both deletes successfully
    twin        \* SpecEq: a second service over its own table, [W, f], whose
                \* cache is configured and fails on every command

vars == <<rows, cache, tasks, frames, now, hasCache, nops, solo, ver, settled, twin>>

----------------------------------------------------------------------------
(* Bounds of the model *)

MaxOps == 3
MaxTime == 2
MaxTasks == 2
MaxRows == 2

\* clock ticks per microsecond: time.Now() reads ticks, DATETIME(6) keeps microseconds
TicksPerMicro == 2

\* the calls of a run of the specification with fairness
MaxLiveOps == 2

\* the width of Go's int, scaled down: an int holds -2^(IntBits-1) .. 2^(IntBits-1)-1
IntBits == 5

\* the goroutines serving requests: "p1" takes a call whenever it is free,
\* "p2" only takes the calls that arrive while "p1" is busy
Procs == {"p1", "p2"}

----------------------------------------------------------------------------
(* books.Book and the error values *)

NoTime == 0

OK == "nil"
ErrBookNotFound == "book not found"
ErrBookAlreadyExists == "book already exists"
ErrInvalidBookData == "invalid book data"
ErrStorage == "storage failure"
ErrCacheMiss == "cache miss"
ErrCacheFailure == "cache failure"

Book(id, title, author, isbn, description, publishedAt, createdAt, updatedAt, deletedAt) ==
    [id |-> id, title |-> title, author |-> author, isbn |-> isbn,
     description |-> description, publishedAt |-> publishedAt,
     createdAt |-> createdAt, updatedAt |-> updatedAt, deletedAt |-> deletedAt]

ZeroBook == Book(0, "", "", "", "", NoTime, NoTime, NoTime, NoTime)

\* an optional string (*string): Nil, or Some(s)
Nil == <<>>
Some(x) == <<x>>

\* a *Book ("Book") or a []Book ("Books"): nil, or the books it holds
NilOf(type) == [type |-> type, nil |-> TRUE, v |-> <<>>]
BookPtr(b) == [type |-> "Book", nil |-> FALSE, v |-> <<b>>]
Books(list) == [type |-> "Books", nil |-> FALSE, v |-> list]
NoValue == NilOf("")

Triple(b) == <<b.title, b.author, b.isbn>>

\* a time.Time as a DATETIME(6) column holds it: the fraction below the
\* microsecond is dropped
Datetime6(t) == t - (t % TicksPerMicro)

----------------------------------------------------------------------------
(* mysql.BookRepository: each operator is one SQL statement *)

\* UNIQUE KEY UQ_books_title_author_isbn: the key spans every row of the table
DuplicateKey(table, book, self) ==
    \E i \in 1..Len(table) : i # self /\ Triple(table[i]) = Triple(book)

\* mutant: the INSERT into a table without the unique key
RepoCreate_NoUniqueKey(table, book) ==
    LET id == Len(table) + 1
        row == Book(id, book.title, book.author, book.isbn, book.description,
                    Datetime6(book.publishedAt), Datetime6(book.createdAt),
                    Datetime6(book.updatedAt), NoTime)
    IN [err |-> OK, val |-> BookPtr([book EXCEPT !.id = id]), rows |-> Append(table, row)]

\* INSERT INTO books (...) and LastInsertId
RepoCreate(table, book) ==
    IF DuplicateKey(table, book, 0)
    THEN [err |-> ErrBookAlreadyExists, val |-> NilOf("Book"), rows |-> table]
    ELSE LET id == Len(table) + 1
             row == Book(id, book.title, book.author, book.isbn, book.description,
                         Datetime6(book.publishedAt), Datetime6(book.createdAt),
                         Datetime6(book.updatedAt), NoTime)
         IN [err |-> OK, val |-> BookPtr([book EXCEPT !.id = id]), rows |-> Append(table, row)]

\* mutant: the SELECT without "AND deletedAt IS NULL"
RepoGetByID_AnyRow(table, id) ==
    IF id \in 1..Len(table)
    THEN [err |-> OK, val |-> BookPtr(table[id])]
    ELSE [err |-> ErrBookNotFound, val |-> NilOf("Book")]

\* SELECT ... WHERE id = ? AND deletedAt IS NULL
RepoGetByID(table, id) ==
    IF id \in 1..Len(table) /\ table[id].deletedAt = NoTime
    THEN [err |-> OK, val |-> BookPtr(table[id])]
    ELSE [err |-> ErrBookNotFound, val |-> NilOf("Book")]

\* author != nil && *author != ""
HasAuthor(author) == author # Nil /\ author[1] # ""

RECURSIVE FilterActive(_, _)
FilterActive(table, author) ==
    IF table = <<>> THEN <<>>
    ELSE LET r == Head(table)
             keep == r.deletedAt = NoTime /\ (HasAuthor(author) => r.author = author[1])
         IN (IF keep THEN <<r>> ELSE <<>>) \o FilterActive(Tail(table), author)

Min(a, b) == IF a < b THEN a ELSE b

\* mutant: the SELECT without "AND author = ?"
RepoGetAll_AnyAuthor(table, author, limit, offset) ==
    LET all == FilterActive(table, Nil)
        skip == IF limit > 0 /\ offset > 0 THEN offset ELSE 0
    IN Books(IF limit > 0
             THEN SubSeq(all, skip + 1, Min(Len(all), skip + limit))
             ELSE all)

\* SELECT ... WHERE deletedAt IS NULL [AND author = ?] ORDER BY id ASC [LIMIT ? [OFFSET ?]]
RepoGetAll(table, author, limit, offset) ==
    LET all == FilterActive(table, author)
        skip == IF limit > 0 /\ offset > 0 THEN offset ELSE 0
    IN Books(IF limit > 0
             THEN SubSeq(all, skip + 1, Min(Len(all), skip + limit))
             ELSE all)

\* mutant: the UPDATE on a table without the unique key
RepoUpdateExec_NoUniqueKey(table, id, book) ==
    IF id \in 1..Len(table) /\ table[id].deletedAt = NoTime
    THEN [err |-> OK,
          rows |-> [table EXCEPT ![id] =
                      [@ EXCEPT !.title = book.title, !.author = book.author,
                                !.isbn = book.isbn, !.description = book.description,
                                !.publishedAt = Datetime6(book.publishedAt),
                                !.updatedAt = Datetime6(book.updatedAt)]]]
    ELSE [err |-> OK, rows |-> table]

\* mutant: the UPDATE without "AND deletedAt IS NULL"
RepoUpdateExec_AnyRow(table, id, book) ==
    IF id \in 1..Len(table)
    THEN IF DuplicateKey(table, book, id)
         THEN [err |-> ErrBookAlreadyExists, rows |-> table]
         ELSE [err |-> OK,
               rows |-> [table EXCEPT ![id] =
                           [@ EXCEPT !.title = book.title, !.author = book.author,
                                     !.isbn = book.isbn, !.description = book.description,
                                     !.publishedAt = Datetime6(book.publishedAt),
                                     !.updatedAt = Datetime6(book.updatedAt)]]]
    ELSE [err |-> OK, rows |-> table]

\* mutant: the UPDATE also sets createdAt from the request
RepoUpdateExec_SetsCreatedAt(table, id, book) ==
    IF id \in 1..Len(table) /\ table[id].deletedAt = NoTime
    THEN IF DuplicateKey(table, book, id)
         THEN [err |-> ErrBookAlreadyExists, rows |-> table]
         ELSE [err |-> OK,
               rows |-> [table EXCEPT ![id] =
                           [@ EXCEPT !.title = book.title, !.author = book.author,
                                     !.isbn = book.isbn, !.description = book.description,
                                     !.publishedAt = Datetime6(book.publishedAt),
                                     !.createdAt = Datetime6(book.createdAt),
                                     !.updatedAt = Datetime6(book.updatedAt)]]]
    ELSE [err |-> OK, rows |-> table]

\* mutant: the UPDATE that affects no row reports NotFound
RepoUpdateExec_RowsAffected(table, id, book) ==
    IF id \in 1..Len(table) /\ table[id].deletedAt = NoTime
    THEN IF DuplicateKey(table, book, id)
         THEN [err |-> ErrBookAlreadyExists, rows |-> table]
         ELSE [err |-> OK,
               rows |-> [table EXCEPT ![id] =
                           [@ EXCEPT !.title = book.title, !.author = book.author,
                                     !.isbn = book.isbn, !.description = book.description,
                                     !.publishedAt = Datetime6(book.publishedAt),
                                     !.updatedAt = Datetime6(book.updatedAt)]]]
    ELSE [err |-> ErrBookNotFound, rows |-> table]

\* UPDATE books SET ... WHERE id = :id AND deletedAt IS NULL
RepoUpdateExec(table, id, book) ==
    IF id \in 1..Len(table) /\ table[id].deletedAt = NoTime
    THEN IF DuplicateKey(table, book, id)
         THEN [err |-> ErrBookAlreadyExists, rows |-> table]
         ELSE [err |-> OK,
               rows |-> [table EXCEPT ![id] =
                           [@ EXCEPT !.title = book.title, !.author = book.author,
                                     !.isbn = book.isbn, !.description = book.description,
                                     !.publishedAt = Datetime6(book.publishedAt),
                                     !.updatedAt = Datetime6(book.updatedAt)]]]
    ELSE [err |-> OK, rows |-> table]

\* the book Update hands back: the fetched row overlaid with the request
RepoUpdateResult(existingBook, book) ==
    [existingBook EXCEPT !.title = book.title, !.author = book.author,
                         !.isbn = book.isbn, !.description = book.description,
                         !.publishedAt = book.publishedAt, !.updatedAt = book.updatedAt]

\* UPDATE books SET deletedAt = :deletedAt WHERE id = :id AND deletedAt IS NULL
RepoDeleteExec(table, id, t) ==
    IF id \in 1..Len(table) /\ table[id].deletedAt = NoTime
    THEN [table EXCEPT ![id].deletedAt = Datetime6(t)]
    ELSE table

----------------------------------------------------------------------------
(* cache.Cache over Redis; values travel as JSON documents *)

Hour == 3600

JSONNull == [t |-> "null"]

\* json.Marshal of a Book: deletedAt carries omitempty
MarshalBook(b) ==
    LET keys == IF b.deletedAt = NoTime THEN DOMAIN b \ {"deletedAt"} ELSE DOMAIN b
    IN [t |-> "object", v |-> [k \in keys |-> b[k]]]

\* json.Marshal of a *Book or a []Book
Marshal(value) ==
    IF value.nil THEN JSONNull
    ELSE IF value.type = "Book"
         THEN MarshalBook(value.v[1])
         ELSE [t |-> "array", v |-> [i \in 1..Len(value.v) |-> MarshalBook(value.v[i])]]

UnmarshalBook(obj) ==
    [k \in DOMAIN ZeroBook |-> IF k \in DOMAIN obj THEN obj[k] ELSE ZeroBook[k]]

\* json.Unmarshal into a zero Book ("Book") or a nil []Book ("Books")
Unmarshal(j, into) ==
    CASE j.t = "null" ->
            [err |-> OK, val |-> IF into = "Book" THEN BookPtr(ZeroBook) ELSE NilOf("Books")]
      [] j.t = "object" /\ into = "Book" ->
            [err |-> OK, val |-> BookPtr(UnmarshalBook(j.v))]
      [] j.t = "array" /\ into = "Books" ->
            [err |-> OK, val |-> Books([i \in 1..Len(j.v) |-> UnmarshalBook(j.v[i].v)])]
      [] OTHER -> [err |-> ErrCacheFailure, val |-> NilOf(into)]

\* Cache.Get; up is whether Redis answers the command
CacheGet(c, key, into, up) ==
    IF ~up THEN [err |-> ErrCacheFailure, val |-> NilOf(into)]
    ELSE IF key \notin DOMAIN c THEN [err |-> ErrCacheMiss, val |-> NilOf(into)]
    ELSE Unmarshal(c[key].val, into)

\* Cache.Set; h is the history kept with the entry
CacheSet(c, key, value, expires, up, h) ==
    IF ~up THEN c
    ELSE [k \in DOMAIN c \cup {key} |->
            IF k = key THEN [val |-> Marshal(value), ttl |-> expires, h |-> h] ELSE c[k]]

\* Cache.Delete
CacheDelete(c, key, up) ==
    IF ~up THEN c
    ELSE [k \in DOMAIN c \ {key} |-> c[k]]

\* mutant: the author's key is built without the separator after "author"
getAllCacheKey_NoSeparator(author) ==
    IF HasAuthor(author)
    THEN "books:books:getall:a" \o author[1]
    ELSE "books:books:getall:all"

\* getAllCacheKey
getAllCacheKey(author) ==
    IF HasAuthor(author)
    THEN "books:books:getall:author:" \o author[1]
    ELSE "books:books:getall:all"

\* getByIDCacheKey
getByIDCacheKey(id) == "books:books:getbyid:" \o ToString(id)

\* mutant: the goroutine passes the caller's context to Cache.Delete
DeleteCmd_CallerCtx(key) ==
    [cmd |-> "Delete", key |-> key, val |-> NoValue, ttl |-> 0, ctx |-> "caller"]

\* one cache command of a detached goroutine, with the context it passes
DeleteCmd(key) ==
    [cmd |-> "Delete", key |-> key, val |-> NoValue, ttl |-> 0, ctx |-> "Background"]

SetCmd(key, value, expires) ==
    [cmd |-> "Set", key |-> key, val |-> value, ttl |-> expires, ctx |-> "Background"]

----------------------------------------------------------------------------
(* A call in progress.  W is the world a step acts on,                     *)
(* [rows, cache, tasks, now, hasCache, ver, settled]; f is the frame of    *)
(* the goroutine: its program counter, arguments and locals.  A step       *)
(* returns [W, f].  The frame also keeps the history of the call: trace    *)
(* (the collaborator calls made), spawned (the goroutines started), cerr   *)
(* (what Cache.Get answered), and the observations gone, since, dver and   *)
(* late that Observe fills in, created: what the Create that the same      *)
(* goroutine served just before a GetByID returned, and raised: the error  *)
(* value the call returned, with its wrappers.                             *)

IdleFrame ==
    [pc |-> "idle", op |-> "none", id |-> 0, book |-> ZeroBook, author |-> Nil,
     pageStr |-> <<>>, limitStr |-> <<>>,
     page |-> 0, limit |-> 0, hasPage |-> FALSE, hasLimit |-> FALSE, offset |-> 0,
     key |-> "", cerr |-> "", existing |-> NoValue, res |-> [err |-> OK, val |-> NoValue],
     ret |-> [err |-> OK, val |-> NoValue], trace |-> <<>>, spawned |-> <<>>,
     gone |-> FALSE, since |-> 0, dver |-> 0, late |-> FALSE, created |-> NoValue,
     raised |-> <<>>]

Active(f) == f.pc \notin {"idle", "done"}

\* an error value is the chain of its wrappers, the original error first; nil
\* is the empty chain
WithStack(err) == IF err = OK THEN <<>> ELSE <<err, "stack">>

Wrap(err, message) == IF err = OK THEN <<>> ELSE <<err, message>>

\* errors.Cause: the innermost error of the chain
Cause(raised) == IF raised = <<>> THEN OK ELSE raised[1]

\* mutant: the service returns a new error that carries the text of err
Return_NewError(f, err, val) ==
    LET e == IF err = OK THEN <<>> ELSE <<"errors.New", err>>
    IN [f EXCEPT !.pc = "done", !.raised = e, !.ret = [err |-> Cause(e), val |-> val]]

\* return val, errors.WithStack(err): ret.err is the cause of the error returned
Return(f, err, val) ==
    LET e == WithStack(err)
    IN [f EXCEPT !.pc = "done", !.raised = e, !.ret = [err |-> Cause(e), val |-> val]]

Called(f, what) == [f EXCEPT !.trace = Append(@, what)]

\* go func() { ... }(); each command remembers which call started it, the table
\* version that call saw, whether the goroutine's earlier commands succeeded,
\* and whether the context of the call that started it has been cancelled
Go(W, f, task) ==
    LET tagged == [i \in 1..Len(task) |->
                     [cmd |-> task[i].cmd, key |-> task[i].key, val |-> task[i].val,
                      ttl |-> task[i].ttl, ctx |-> task[i].ctx, by |-> f.op, ver |-> W.ver,
                      clean |-> TRUE, cancelled |-> FALSE]]
    IN [W |-> [W EXCEPT !.tasks = @ (+) SetToBag({tagged})],
        f |-> [f EXCEPT !.spawned = Append(@, task)]]

\* the table after a statement; the version counts its changes
Write(W, table) ==
    [W EXCEPT !.rows = table, !.ver = IF table # W.rows THEN @ + 1 ELSE @]

----------------------------------------------------------------------------
(* books.BookService *)

\* mutant: Create keeps the timestamps of a request that carries them
CreateStamp_KeepsCallerTimes(W, f) ==
    [W |-> W,
     f |-> [f EXCEPT !.pc = "Create:repo",
                     !.book = IF f.book.createdAt # NoTime THEN @
                              ELSE [@ EXCEPT !.createdAt = W.now, !.updatedAt = W.now]]]

\* Create: the timestamps
CreateStamp(W, f) ==
    [W |-> W,
     f |-> [f EXCEPT !.pc = "Create:repo",
                     !.book = [@ EXCEPT !.createdAt = W.now, !.updatedAt = W.now]]]

\* mutant: Create also drops the author-filtered list of the new book's author
CreateRepo_AuthorKeyToo(W, f, dbUp) ==
    LET r == IF dbUp THEN RepoCreate(W.rows, f.book)
             ELSE [err |-> ErrStorage, val |-> NilOf("Book"), rows |-> W.rows]
        g == [Called(f, "repo.Create") EXCEPT !.res = [err |-> r.err, val |-> r.val]]
        V == Write(W, r.rows)
    IN IF r.err # OK THEN [W |-> V, f |-> Return(g, r.err, NilOf("Book"))]
       ELSE IF W.hasCache
            THEN LET s == Go(V, g, <<DeleteCmd(getAllCacheKey(Nil)),
                                     DeleteCmd(getAllCacheKey(Some(f.book.author)))>>)
                 IN [W |-> s.W, f |-> Return(s.f, OK, r.val)]
            ELSE [W |-> V, f |-> Return(g, OK, r.val)]

\* mutant: Create leaves the cache alone
CreateRepo_NoInvalidation(W, f, dbUp) ==
    LET r == IF dbUp THEN RepoCreate(W.rows, f.book)
             ELSE [err |-> ErrStorage, val |-> NilOf("Book"), rows |-> W.rows]
        g == [Called(f, "repo.Create") EXCEPT !.res = [err |-> r.err, val |-> r.val]]
        V == Write(W, r.rows)
    IN IF r.err # OK THEN [W |-> V, f |-> Return(g, r.err, NilOf("Book"))]
       ELSE [W |-> V, f |-> Return(g, OK, r.val)]

\* Create: the repository call, the invalidation and the return
CreateRepo(W, f, dbUp) ==
    LET r == IF dbUp THEN RepoCreate(W.rows, f.book)
             ELSE [err |-> ErrStorage, val |-> NilOf("Book"), rows |-> W.rows]
        g == [Called(f, "repo.Create") EXCEPT !.res = [err |-> r.err, val |-> r.val]]
        V == Write(W, r.rows)
    IN IF r.err # OK THEN [W |-> V, f |-> Return(g, r.err, NilOf("Book"))]
       ELSE IF W.hasCache
            THEN LET s == Go(V, g, <<DeleteCmd(getAllCacheKey(Nil))>>)
                 IN [W |-> s.W, f |-> Return(s.f, OK, r.val)]
            ELSE [W |-> V, f |-> Return(g, OK, r.val)]

\* mutant: GetByID returns every cache error but the miss to its caller
GetByIDCache_Surfacing(W, f, cacheUp) ==
    IF W.hasCache
    THEN LET cacheKey == getByIDCacheKey(f.id)
             c == CacheGet(W.cache, cacheKey, "Book", cacheUp)
             g == [Called(f, "cache.Get") EXCEPT !.key = cacheKey, !.cerr = c.err]
         IN IF c.err = OK THEN [W |-> W, f |-> Return(g, OK, c.val)]
            ELSE IF c.err # ErrCacheMiss THEN [W |-> W, f |-> Return(g, c.err, NilOf("Book"))]
            ELSE [W |-> W, f |-> [g EXCEPT !.pc = "GetByID:repo"]]
    ELSE [W |-> W, f |-> [f EXCEPT !.pc = "GetByID:repo"]]

\* mutant: a hit refreshes the entry with another Cache.Set
GetByIDCache_Refreshing(W, f, cacheUp) ==
    IF W.hasCache
    THEN LET cacheKey == getByIDCacheKey(f.id)
             c == CacheGet(W.cache, cacheKey, "Book", cacheUp)
             g == [Called(f, "cache.Get") EXCEPT !.key = cacheKey, !.cerr = c.err]
         IN IF c.err = OK
            THEN LET s == Go(W, g, <<SetCmd(cacheKey, c.val, Hour)>>)
                 IN [W |-> s.W, f |-> Return(s.f, OK, c.val)]
            ELSE [W |-> W, f |-> [g EXCEPT !.pc = "GetByID:repo"]]
    ELSE [W |-> W, f |-> [f EXCEPT !.pc = "GetByID:repo"]]

\* GetByID: the cache lookup
GetByIDCache(W, f, cacheUp) ==
    IF W.hasCache
    THEN LET cacheKey == getByIDCacheKey(f.id)
             c == CacheGet(W.cache, cacheKey, "Book", cacheUp)
             g == [Called(f, "cache.Get") EXCEPT !.key = cacheKey, !.cerr = c.err]
         IN IF c.err = OK THEN [W |-> W, f |-> Return(g, OK, c.val)]
            ELSE [W |-> W, f |-> [g EXCEPT !.pc = "GetByID:repo"]]
    ELSE [W |-> W, f |-> [f EXCEPT !.pc = "GetByID:repo"]]

\* mutant: GetByID starts the cache write before it looks at the error
GetByIDRepo_AlwaysSets(W, f, dbUp) ==
    LET r == IF dbUp THEN RepoGetByID(W.rows, f.id)
             ELSE [err |-> ErrStorage, val |-> NilOf("Book")]
        g == [Called(f, "repo.GetByID") EXCEPT !.res = r]
        s == IF W.hasCache
             THEN Go(W, g, <<SetCmd(getByIDCacheKey(f.id), r.val, Hour)>>)
             ELSE [W |-> W, f |-> g]
    IN IF r.err # OK THEN [W |-> s.W, f |-> Return(s.f, r.err, NilOf("Book"))]
       ELSE [W |-> s.W, f |-> Return(s.f, OK, r.val)]

\* GetByID: the repository read, the asynchronous cache write and the return
GetByIDRepo(W, f, dbUp) ==
    LET r == IF dbUp THEN RepoGetByID(W.rows, f.id)
             ELSE [err |-> ErrStorage, val |-> NilOf("Book")]
        g == [Called(f, "repo.GetByID") EXCEPT !.res = r]
    IN IF r.err # OK THEN [W |-> W, f |-> Return(g, r.err, NilOf("Book"))]
       ELSE IF W.hasCache /\ ~r.val.nil
            THEN LET s == Go(W, g, <<SetCmd(getByIDCacheKey(f.id), r.val, Hour)>>)
                 IN [W |-> s.W, f |-> Return(s.f, OK, r.val)]
            ELSE [W |-> W, f |-> Return(g, OK, r.val)]

\* mutant: GetAll returns every cache error but the miss to its caller
GetAllCache_Surfacing(W, f, cacheUp) ==
    IF W.hasCache /\ f.limit = 0 /\ f.offset = 0
    THEN LET cacheKey == getAllCacheKey(f.author)
             c == CacheGet(W.cache, cacheKey, "Books", cacheUp)
             g == [Called(f, "cache.Get") EXCEPT !.key = cacheKey, !.cerr = c.err]
         IN IF c.err = OK THEN [W |-> W, f |-> Return(g, OK, c.val)]
            ELSE IF c.err # ErrCacheMiss THEN [W |-> W, f |-> Return(g, c.err, NilOf("Books"))]
            ELSE [W |-> W, f |-> [g EXCEPT !.pc = "GetAll:repo"]]
    ELSE [W |-> W, f |-> [f EXCEPT !.pc = "GetAll:repo"]]

\* mutant: GetAll consults the cache whenever the offset is zero
GetAllCache_AnyLimit(W, f, cacheUp) ==
    IF W.hasCache /\ f.offset = 0
    THEN LET cacheKey == getAllCacheKey(f.author)
             c == CacheGet(W.cache, cacheKey, "Books", cacheUp)
             g == [Called(f, "cache.Get") EXCEPT !.key = cacheKey, !.cerr = c.err]
         IN IF c.err = OK THEN [W |-> W, f |-> Return(g, OK, c.val)]
            ELSE [W |-> W, f |-> [g EXCEPT !.pc = "GetAll:repo"]]
    ELSE [W |-> W, f |-> [f EXCEPT !.pc = "GetAll:repo"]]

\* GetAll: the cache lookup
GetAllCache(W, f, cacheUp) ==
    IF W.hasCache /\ f.limit = 0 /\ f.offset = 0
    THEN LET cacheKey == getAllCacheKey(f.author)
             c == CacheGet(W.cache, cacheKey, "Books", cacheUp)
             g == [Called(f, "cache.Get") EXCEPT !.key = cacheKey, !.cerr = c.err]
         IN IF c.err = OK THEN [W |-> W, f |-> Return(g, OK, c.val)]
            ELSE [W |-> W, f |-> [g EXCEPT !.pc = "GetAll:repo"]]
    ELSE [W |-> W, f |-> [f EXCEPT !.pc = "GetAll:repo"]]

\* GetAll: the repository read, the asynchronous cache write and the return
GetAllRepo(W, f, dbUp) ==
    LET r == IF dbUp
             THEN [err |-> OK, val |-> RepoGetAll(W.rows, f.author, f.limit, f.offset)]
             ELSE [err |-> ErrStorage, val |-> NilOf("Books")]
        g == [Called(f, "repo.GetAll") EXCEPT !.res = r]
    IN IF r.err # OK THEN [W |-> W, f |-> Return(g, r.err, NilOf("Books"))]
       ELSE IF W.hasCache /\ f.limit = 0 /\ f.offset = 0
            THEN LET s == Go(W, g, <<SetCmd(getAllCacheKey(f.author), r.val, Hour)>>)
                 IN [W |-> s.W, f |-> Return(s.f, OK, r.val)]
            ELSE [W |-> W, f |-> Return(g, OK, r.val)]

\* mutant: Update checks the title and forgets the author
UpdateValidate_TitleOnly(W, f) ==
    IF f.book.title = ""
    THEN [W |-> W, f |-> [Return(f, ErrInvalidBookData, NilOf("Book"))
                            EXCEPT !.raised = Wrap(ErrInvalidBookData, "title is required")]]
    ELSE [W |-> W,
          f |-> [f EXCEPT !.book = [@ EXCEPT !.updatedAt = W.now],
                          !.pc = IF f.book.publishedAt = NoTime
                                 THEN "Update:published" ELSE "Update:fetch"]]

\* Update: validation and the updatedAt timestamp
UpdateValidate(W, f) ==
    IF f.book.title = ""
    THEN [W |-> W, f |-> [Return(f, ErrInvalidBookData, NilOf("Book"))
                            EXCEPT !.raised = Wrap(ErrInvalidBookData, "title is required")]]
    ELSE IF f.book.author = ""
    THEN [W |-> W, f |-> [Return(f, ErrInvalidBookData, NilOf("Book"))
                            EXCEPT !.raised = Wrap(ErrInvalidBookData, "author is required")]]
    ELSE [W |-> W,
          f |-> [f EXCEPT !.book = [@ EXCEPT !.updatedAt = W.now],
                          !.pc = IF f.book.publishedAt = NoTime
                                 THEN "Update:published" ELSE "Update:fetch"]]

\* mutant: Update takes the updatedAt reading for publishedAt too
UpdatePublished_Reuses(W, f) ==
    [W |-> W,
     f |-> [f EXCEPT !.book = [@ EXCEPT !.publishedAt = f.book.updatedAt],
                     !.pc = "Update:fetch"]]

\* Update: publishedAt defaults to a second reading of the clock
UpdatePublished(W, f) ==
    [W |-> W,
     f |-> [f EXCEPT !.book = [@ EXCEPT !.publishedAt = W.now], !.pc = "Update:fetch"]]

\* Update: the repository's existence check
UpdateFetch(W, f, dbUp) ==
    LET r == IF dbUp THEN RepoGetByID(W.rows, f.id)
             ELSE [err |-> ErrStorage, val |-> NilOf("Book")]
        g == [Called(f, "repo.Update") EXCEPT !.res = r]
    IN IF r.err # OK THEN [W |-> W, f |-> Return(g, r.err, NilOf("Book"))]
       ELSE [W |-> W, f |-> [g EXCEPT !.existing = r.val, !.pc = "Update:exec"]]

\* mutant: Update invalidates the book's own key and forgets the list
UpdateExec_OwnKeyOnly(W, f, dbUp) ==
    LET r == IF dbUp THEN RepoUpdateExec(W.rows, f.id, f.book)
             ELSE [err |-> ErrStorage, rows |-> W.rows]
        V == Write(W, r.rows)
        updatedBook == BookPtr(RepoUpdateResult(f.existing.v[1], f.book))
    IN IF r.err # OK
       THEN [W |-> V, f |-> Return([f EXCEPT !.res = [err |-> r.err, val |-> NilOf("Book")]],
                                   r.err, NilOf("Book"))]
       ELSE LET g == [f EXCEPT !.res = [err |-> OK, val |-> updatedBook]]
            IN IF W.hasCache
               THEN LET s == Go(V, g, <<DeleteCmd(getByIDCacheKey(f.id))>>)
                    IN [W |-> s.W, f |-> Return(s.f, OK, updatedBook)]
               ELSE [W |-> V, f |-> Return(g, OK, updatedBook)]

\* mutant: Update also drops the author-filtered list of the book's new author
UpdateExec_AuthorKeyToo(W, f, dbUp) ==
    LET r == IF dbUp THEN RepoUpdateExec(W.rows, f.id, f.book)
             ELSE [err |-> ErrStorage, rows |-> W.rows]
        V == Write(W, r.rows)
        updatedBook == BookPtr(RepoUpdateResult(f.existing.v[1], f.book))
    IN IF r.err # OK
       THEN [W |-> V, f |-> Return([f EXCEPT !.res = [err |-> r.err, val |-> NilOf("Book")]],
                                   r.err, NilOf("Book"))]
       ELSE LET g == [f EXCEPT !.res = [err |-> OK, val |-> updatedBook]]
            IN IF W.hasCache
               THEN LET s == Go(V, g, <<DeleteCmd(getByIDCacheKey(f.id)),
                                        DeleteCmd(getAllCacheKey(Nil)),
                                        DeleteCmd(getAllCacheKey(Some(f.book.author)))>>)
                    IN [W |-> s.W, f |-> Return(s.f, OK, updatedBook)]
               ELSE [W |-> V, f |-> Return(g, OK, updatedBook)]

\* mutant: Update writes the book it returns through to the cache
UpdateExec_WriteThrough(W, f, dbUp) ==
    LET r == IF dbUp THEN RepoUpdateExec(W.rows, f.id, f.book)
             ELSE [err |-> ErrStorage, rows |-> W.rows]
        V == Write(W, r.rows)
        updatedBook == BookPtr(RepoUpdateResult(f.existing.v[1], f.book))
    IN IF r.err # OK
       THEN [W |-> V, f |-> Return([f EXCEPT !.res = [err |-> r.err, val |-> NilOf("Book")]], r.err, NilOf("Book"))]
       ELSE LET g == [f EXCEPT !.res = [err |-> OK, val |-> updatedBook]]
            IN IF W.hasCache
               THEN LET s == Go(V, g, <<SetCmd(getByIDCacheKey(f.id), updatedBook, Hour),
                                        DeleteCmd(getAllCacheKey(Nil))>>)
                    IN [W |-> s.W, f |-> Return(s.f, OK, updatedBook)]
               ELSE [W |-> V, f |-> Return(g, OK, updatedBook)]

\* Update: the UPDATE statement, the invalidation and the return
UpdateExec(W, f, dbUp) ==
    LET r == IF dbUp THEN RepoUpdateExec(W.rows, f.id, f.book)
             ELSE [err |-> ErrStorage, rows |-> W.rows]
        V == Write(W, r.rows)
        updatedBook == BookPtr(RepoUpdateResult(f.existing.v[1], f.book))
    IN IF r.err # OK
       THEN [W |-> V, f |-> Return([f EXCEPT !.res = [err |-> r.err, val |-> NilOf("Book")]], r.err, NilOf("Book"))]
       ELSE LET g == [f EXCEPT !.res = [err |-> OK, val |-> updatedBook]]
            IN IF W.hasCache
               THEN LET s == Go(V, g, <<DeleteCmd(getByIDCacheKey(f.id)),
                                        DeleteCmd(getAllCacheKey(Nil))>>)
                    IN [W |-> s.W, f |-> Return(s.f, OK, updatedBook)]
               ELSE [W |-> V, f |-> Return(g, OK, updatedBook)]

\* mutant: Delete without the existence check
DeleteFetch_NoCheck(W, f, dbUp) ==
    LET e == IF dbUp THEN OK ELSE ErrStorage
        g == [Called(f, "repo.Delete") EXCEPT !.res = [err |-> e, val |-> NoValue]]
    IN IF e # OK THEN [W |-> W, f |-> Return(g, e, NoValue)]
       ELSE [W |-> W, f |-> [g EXCEPT !.pc = "Delete:exec"]]

\* Delete: the repository's existence check
DeleteFetch(W, f, dbUp) ==
    LET r == IF dbUp THEN RepoGetByID(W.rows, f.id)
             ELSE [err |-> ErrStorage, val |-> NilOf("Book")]
        g == [Called(f, "repo.Delete") EXCEPT !.res = [err |-> r.err, val |-> NoValue]]
    IN IF r.err # OK THEN [W |-> W, f |-> Return(g, r.err, NoValue)]
       ELSE [W |-> W, f |-> [g EXCEPT !.pc = "Delete:exec"]]

\* mutant: Delete invalidates the list and forgets the book's own key
DeleteExec_ListOnly(W, f, dbUp) ==
    LET V == IF dbUp THEN Write(W, RepoDeleteExec(W.rows, f.id, W.now)) ELSE W
        e == IF dbUp THEN OK ELSE ErrStorage
        g == [f EXCEPT !.res = [err |-> e, val |-> NoValue]]
    IN IF e # OK THEN [W |-> V, f |-> Return(g, e, NoValue)]
       ELSE IF W.hasCache
            THEN LET s == Go(V, g, <<DeleteCmd(getAllCacheKey(Nil))>>)
                 IN [W |-> s.W, f |-> Return(s.f, OK, NoValue)]
            ELSE [W |-> V, f |-> Return(g, OK, NoValue)]

\* mutant: Delete invalidates whatever the Repository answered
DeleteExec_InvalidatesFirst(W, f, dbUp) ==
    LET V == IF dbUp THEN Write(W, RepoDeleteExec(W.rows, f.id, W.now)) ELSE W
        e == IF dbUp THEN OK ELSE ErrStorage
        g == [f EXCEPT !.res = [err |-> e, val |-> NoValue]]
    IN IF W.hasCache
       THEN LET s == Go(V, g, <<DeleteCmd(getByIDCacheKey(f.id)),
                                DeleteCmd(getAllCacheKey(Nil))>>)
            IN [W |-> s.W, f |-> Return(s.f, e, NoValue)]
       ELSE [W |-> V, f |-> Return(g, e, NoValue)]

\* Delete: the soft-delete statement, the invalidation and the return
DeleteExec(W, f, dbUp) ==
    LET V == IF dbUp THEN Write(W, RepoDeleteExec(W.rows, f.id, W.now)) ELSE W
        e == IF dbUp THEN OK ELSE ErrStorage
        g == [f EXCEPT !.res = [err |-> e, val |-> NoValue]]
    IN IF e # OK THEN [W |-> V, f |-> Return(g, e, NoValue)]
       ELSE IF W.hasCache
            THEN LET s == Go(V, g, <<DeleteCmd(getByIDCacheKey(f.id)),
                                     DeleteCmd(getAllCacheKey(Nil))>>)
                 IN [W |-> s.W, f |-> Return(s.f, OK, NoValue)]
            ELSE [W |-> V, f |-> Return(g, OK, NoValue)]

\* mutant: a populate never overwrites a completed invalidation
RunCmd_Versioned(W, task, redisUp) ==
    LET c == Head(task)
        cacheUp == redisUp /\ (c.ctx = "Background" \/ ~c.cancelled)
        rest == [i \in 1..(Len(task) - 1) |->
                   [task[i + 1] EXCEPT !.clean = c.clean /\ cacheUp]]
        left == W.tasks (-) SetToBag({task})
        invalidated == /\ c.cmd = "Delete" /\ c.by = "Update" /\ rest = <<>>
                       /\ c.clean /\ cacheUp /\ c.ver > W.settled
    IN [W EXCEPT !.cache = IF c.cmd = "Set"
                           THEN CacheSet(W.cache, c.key, c.val, c.ttl,
                                         cacheUp /\ ~(W.settled > c.ver),
                                         [ver |-> c.ver, late |-> FALSE])
                           ELSE CacheDelete(W.cache, c.key, cacheUp),
                 !.tasks = IF rest = <<>> THEN left ELSE left (+) SetToBag({rest}),
                 !.settled = IF invalidated THEN c.ver ELSE @]

\* a detached goroutine runs its next cache command; the error is dropped.
\* redisUp: Redis answers; a command whose context is cancelled fails
RunCmd(W, task, redisUp) ==
    LET c == Head(task)
        cacheUp == redisUp /\ (c.ctx = "Background" \/ ~c.cancelled)
        rest == [i \in 1..(Len(task) - 1) |->
                   [task[i + 1] EXCEPT !.clean = c.clean /\ cacheUp]]
        left == W.tasks (-) SetToBag({task})
        invalidated == /\ c.cmd = "Delete" /\ c.by = "Update" /\ rest = <<>>
                       /\ c.clean /\ cacheUp /\ c.ver > W.settled
    IN [W EXCEPT !.cache = IF c.cmd = "Set"
                           THEN CacheSet(W.cache, c.key, c.val, c.ttl, cacheUp,
                                         [ver |-> c.ver, late |-> W.settled > c.ver])
                           ELSE CacheDelete(W.cache, c.key, cacheUp),
                 !.tasks = IF rest = <<>> THEN left ELSE left (+) SetToBag({rest}),
                 !.settled = IF invalidated THEN c.ver ELSE @]

----------------------------------------------------------------------------
(* api.BookController.GetAll: the query parameters *)

DigitValue(c) ==
    CASE c = "0" -> 0 [] c = "1" -> 1 [] c = "2" -> 2 [] c = "3" -> 3 [] c = "4" -> 4
      [] c = "5" -> 5 [] c = "6" -> 6 [] c = "7" -> 7 [] c = "8" -> 8 [] c = "9" -> 9
      [] OTHER -> -1

RECURSIVE DigitsValue(_, _)
DigitsValue(s, acc) ==
    IF s = <<>> THEN acc ELSE DigitsValue(Tail(s), 10 * acc + DigitValue(Head(s)))

\* the values of an int
MaxInt == 2^(IntBits - 1) - 1
MinInt == -(2^(IntBits - 1))

\* the int that the arithmetic of the machine yields for the integer x: Go's
\* int arithmetic wraps around silently, in two's complement
WrapInt(x) == ((x - MinInt) % 2^IntBits) + MinInt

\* strconv.Atoi on a string given as its sequence of characters; a value that
\* no int holds is an error (strconv.ErrRange)
Atoi(s) ==
    LET signed == s # <<>> /\ Head(s) \in {"+", "-"}
        body == IF signed THEN Tail(s) ELSE s
        n == IF signed /\ Head(s) = "-" THEN -DigitsValue(body, 0)
             ELSE DigitsValue(body, 0)
    IN IF body = <<>> \/ \E i \in 1..Len(body) : DigitValue(body[i]) < 0
       THEN [err |-> TRUE, val |-> 0]
       ELSE IF n < MinInt \/ n > MaxInt
       THEN [err |-> TRUE, val |-> 0]
       ELSE [err |-> FALSE, val |-> n]

\* mutant: zero counts as a page or a limit
ParseParam_AcceptsZero(str) ==
    IF str # <<>> /\ ~Atoi(str).err /\ Atoi(str).val >= 0
    THEN [has |-> TRUE, val |-> Atoi(str).val]
    ELSE [has |-> FALSE, val |-> 0]

\* the page or limit parameter: recognized when it parses to a positive int
ParseParam(str) ==
    IF str # <<>> /\ ~Atoi(str).err /\ Atoi(str).val > 0
    THEN [has |-> TRUE, val |-> Atoi(str).val]
    ELSE [has |-> FALSE, val |-> 0]

\* mutant: the offset of page P is P * limit
ControllerGetAll_PageTimesLimit(f, authorStr, pageStr, limitStr) ==
    LET pg == ParseParam(pageStr)
        lm == ParseParam(limitStr)
    IN [f EXCEPT !.author = IF authorStr # "" THEN Some(authorStr) ELSE Nil,
                 !.pageStr = pageStr, !.limitStr = limitStr,
                 !.page = pg.val, !.hasPage = pg.has,
                 !.limit = lm.val, !.hasLimit = lm.has,
                 !.offset = IF lm.has /\ pg.has THEN WrapInt(pg.val * lm.val) ELSE 0,
                 !.pc = "GetAll:cache"]

\* mutant: a page without a limit is served with a page size of one
ControllerGetAll_DefaultLimit(f, authorStr, pageStr, limitStr) ==
    LET pg == ParseParam(pageStr)
        lm == IF ParseParam(limitStr).has \/ ~pg.has THEN ParseParam(limitStr)
              ELSE [has |-> TRUE, val |-> 1]
    IN [f EXCEPT !.author = IF authorStr # "" THEN Some(authorStr) ELSE Nil,
                 !.pageStr = pageStr, !.limitStr = limitStr,
                 !.page = pg.val, !.hasPage = pg.has,
                 !.limit = lm.val, !.hasLimit = lm.has,
                 !.offset = IF lm.has /\ pg.has THEN WrapInt((pg.val - 1) * lm.val) ELSE 0,
                 !.pc = "GetAll:cache"]

\* GetAll: author, page, limit and the offset handed to the service
ControllerGetAll(f, authorStr, pageStr, limitStr) ==
    LET pg == ParseParam(pageStr)
        lm == ParseParam(limitStr)
    IN [f EXCEPT !.author = IF authorStr # "" THEN Some(authorStr) ELSE Nil,
                 !.pageStr = pageStr, !.limitStr = limitStr,
                 !.page = pg.val, !.hasPage = pg.has,
                 !.limit = lm.val, !.hasLimit = lm.has,
                 !.offset = IF lm.has /\ pg.has THEN WrapInt((pg.val - 1) * lm.val) ELSE 0,
                 !.pc = "GetAll:cache"]

----------------------------------------------------------------------------
(* api.ErrorHandler *)

\* a *validate.Validator that has errors, as an error value
ErrValidation == "validation errors"

\* getCodeByErr on the cause of an error
getCodeByErr(err) ==
    IF err = ErrValidation THEN 400
    ELSE IF err \in {ErrInvalidBookData, ErrBookAlreadyExists} THEN 400
    ELSE IF err = ErrBookNotFound THEN 404
    ELSE 500

\* mutant: the middleware looks at the error as returned, not at its cause
ErrorHandler_NoCause(raised) ==
    LET err == IF raised = <<>> THEN OK ELSE raised[Len(raised)]
    IN [code |-> getCodeByErr(err), message |-> err]

\* the HTTP error the middleware makes of a handler's error
ErrorHandler(raised) ==
    LET errCause == Cause(raised)
    IN [code |-> getCodeByErr(errCause), message |-> errCause]

----------------------------------------------------------------------------
(* api.BookController: what a handler returns, given what the service      *)
(* returned (raised, val) for the book of the request                      *)

\* validate.Required on the fields the handler of op demands; a request
\* without publishedAt is a book with the zero time
Validate(op, book) ==
    (IF op \in {"Create", "Update"} /\ book.title = ""
     THEN <<"title is required">> ELSE <<>>)
    \o (IF op \in {"Create", "Update"} /\ book.author = ""
        THEN <<"author is required">> ELSE <<>>)
    \o (IF op = "Create" /\ book.publishedAt = NoTime
        THEN <<"publishedAt is required">> ELSE <<>>)

\* mutant: the response carries the page whenever a page was recognized
GetAllBooksResponse_PageAlone(bookList, page, limit, hasPage, hasLimit) ==
    LET Page == IF hasPage THEN page ELSE 0
        Limit == IF hasLimit THEN limit ELSE 0
        keys == {"books"} \cup (IF Page # 0 THEN {"page"} ELSE {})
                          \cup (IF Limit # 0 THEN {"limit"} ELSE {})
    IN [k \in keys |-> CASE k = "books" -> bookList [] k = "page" -> Page [] OTHER -> Limit]

\* the JSON document of a GetAllBooksResponse; page and limit carry omitempty
GetAllBooksResponse(bookList, page, limit, hasPage, hasLimit) ==
    LET Page == IF hasPage /\ hasLimit THEN page ELSE 0
        Limit == IF hasLimit THEN limit ELSE 0
        keys == {"books"} \cup (IF Page # 0 THEN {"page"} ELSE {})
                          \cup (IF Limit # 0 THEN {"limit"} ELSE {})
    IN [k \in keys |-> CASE k = "books" -> bookList [] k = "page" -> Page [] OTHER -> Limit]

\* the handler: an error, or the status it writes with the book or the list
\* (the list travels in a GetAllBooksResponse)
Handler(op, book, raised, val) ==
    IF Validate(op, book) # <<>>
    THEN [err |-> <<ErrValidation>>, code |-> 0, body |-> NoValue]
    ELSE IF raised # <<>>
    THEN [err |-> raised, code |-> 0, body |-> NoValue]
    ELSE [err |-> <<>>,
          code |-> CASE op = "Create" -> 201
                     [] op = "Delete" -> 204
                     [] OTHER -> 200,
          body |-> IF op = "Delete" THEN NoValue ELSE val]

\* the handler behind the ErrorHandler middleware: the status of the response
Respond(op, book, raised, val) ==
    LET h == Handler(op, book, raised, val)
    IN IF h.err # <<>> THEN [code |-> ErrorHandler(h.err).code, body |-> NoValue]
       ELSE [code |-> h.code, body |-> h.body]

----------------------------------------------------------------------------
(* The inputs *)

Input(title, author, description, publishedAt) ==
    Book(0, title, author, "I1", description, publishedAt, NoTime, NoTime, NoTime)

\* the books handed to Create; the last one carries identity and lifecycle
\* fields set by the caller
CreateInputs ==
    { Input("T1", "A1", "D1", TicksPerMicro),
      Input("T2", "A2", "D1", TicksPerMicro),
      Book(7, "", "A1", "I1", "D1", TicksPerMicro, 9, 9, 9) }

\* the books handed to Update
UpdateInputs ==
    { Input("T1", "A1", "D2", NoTime),
      Input("T2", "A2", "D1", TicksPerMicro),
      Input("T1", "", "D1", TicksPerMicro),
      Input("", "A1", "D1", TicksPerMicro) }

Ids == 1..MaxRows

AuthorParams == {"", "A1"}

\* the page and limit parameters: every shape when the calls arrive one at a
\* time, none when they overlap
PageParams == IF solo THEN { <<>>, <<"x">>, <<"0">>, <<"1">>, <<"2">>, <<"3">> } ELSE { <<>> }

LimitParams == IF solo THEN { <<>>, <<"x">>, <<"-", "1">>, <<"1">>, <<"2">> } ELSE { <<>> }

----------------------------------------------------------------------------
(* The state machine *)

World == [rows |-> rows, cache |-> cache, tasks |-> tasks, now |-> now,
          hasCache |-> hasCache, ver |-> ver, settled |-> settled]

\* whether MySQL executes a statement: it always does while calls overlap, it
\* may fail (connection lost, context cancelled) when they arrive one at a time
StorageUp == IF solo THEN BOOLEAN ELSE {TRUE}

\* the world when the clock reads t; the clock never runs backwards, and it
\* reads whole microseconds while calls overlap
Times == {t \in now..(MaxTime * TicksPerMicro) : solo \/ t % TicksPerMicro = 0}
WorldAt(t) == [World EXCEPT !.now = t]

\* row id is absent or soft-deleted
Gone(table, id) == id \notin 1..Len(table) \/ table[id].deletedAt # NoTime

\* what the step that led to frame f saw: whether its row was gone, and the
\* table version of the data it obtained (from the cache entry on a hit)
Observe(p, f) ==
    LET hit == frames[p].pc \in {"GetByID:cache", "GetAll:cache"} /\ f.cerr = OK
    IN [f EXCEPT !.gone = Gone(rows, f.id),
                 !.dver = IF hit THEN cache[f.key].h.ver ELSE ver,
                 !.late = hit /\ cache[f.key].h.late]

\* the service starts over a table that holds one book, created at the first
\* microsecond,
\* and an empty Redis
SeedRows ==
    <<Book(1, "T1", "A1", "I1", "D1", TicksPerMicro, TicksPerMicro, TicksPerMicro, NoTime)>>

\* no second service
NoTwin == [W |-> <<>>, f |-> IdleFrame]

InitWith(alone) ==
    /\ solo = alone
    /\ rows = SeedRows
    /\ cache = <<>>
    /\ tasks = EmptyBag
    /\ frames = [p \in Procs |-> IdleFrame]
    /\ now = TicksPerMicro
    /\ hasCache \in BOOLEAN
    /\ nops = 0
    /\ ver = 0
    /\ settled = 0
    /\ twin = NoTwin

Init == InitWith(FALSE)

InitSeq == InitWith(TRUE)

ActiveCalls == Cardinality({q \in Procs : Active(frames[q])})

\* a goroutine may take a new call; every call in flight can still start its goroutine
CanCall(p) ==
    /\ ~Active(frames[p])
    /\ p = "p2" => ~solo /\ Active(frames["p1"])
    /\ nops < MaxOps
    /\ BagCardinality(tasks) + ActiveCalls < MaxTasks

\* the book of the Create that goroutine p has just returned from
JustCreated(p) ==
    IF frames[p].pc = "done" /\ frames[p].op = "Create" /\ frames[p].ret.err = OK
    THEN frames[p].ret.val
    ELSE NoValue

\* a call begins; the frames of the calls that have returned are dropped
Begin(p, r) ==
    /\ frames' = [q \in Procs |->
                    IF q = p
                    THEN [r.f EXCEPT !.since = settled,
                                     !.created = IF r.f.op = "GetByID" THEN JustCreated(p)
                                                 ELSE NoValue]
                    ELSE IF Active(frames[q]) THEN frames[q] ELSE IdleFrame]
    /\ now' = r.W.now
    /\ nops' = nops + 1
    /\ UNCHANGED <<rows, cache, tasks, hasCache, solo, ver, settled, twin>>

Commit(p, r) ==
    /\ rows' = r.W.rows
    /\ cache' = r.W.cache
    /\ tasks' = r.W.tasks
    /\ now' = r.W.now
    /\ ver' = r.W.ver
    /\ frames' = [frames EXCEPT ![p] = Observe(p, r.f)]
    /\ UNCHANGED <<hasCache, nops, solo, settled, twin>>

At(p, pc) == frames[p].pc = pc

CallCreate(p) ==
    /\ CanCall(p)
    /\ Len(rows) + Cardinality({q \in Procs : Active(frames[q]) /\ frames[q].op = "Create"})
          < MaxRows
    /\ \E book \in CreateInputs, t \in Times :
          Begin(p, CreateStamp(WorldAt(t), [IdleFrame EXCEPT !.op = "Create", !.book = book]))

DoCreateRepo(p) ==
    /\ At(p, "Create:repo")
    /\ \E dbUp \in StorageUp : Commit(p, CreateRepo(World, frames[p], dbUp))

CallGetByID(p) ==
    /\ CanCall(p)
    /\ \E id \in Ids :
          LET f == [IdleFrame EXCEPT !.op = "GetByID", !.id = id, !.pc = "GetByID:cache"]
          IN Begin(p, IF hasCache THEN [W |-> World, f |-> f]
                      ELSE GetByIDCache(World, f, TRUE))

DoGetByIDCache(p) ==
    /\ At(p, "GetByID:cache")
    /\ \E cacheUp \in BOOLEAN : Commit(p, GetByIDCache(World, frames[p], cacheUp))

DoGetByIDRepo(p) ==
    /\ At(p, "GetByID:repo")
    /\ \E dbUp \in StorageUp : Commit(p, GetByIDRepo(World, frames[p], dbUp))

\* a GET /books whose page and limit parameters come from the given sets
CallGetAllWith(p, pages, limits) ==
    /\ CanCall(p)
    /\ \E authorStr \in AuthorParams, pageStr \in pages, limitStr \in limits :
          LET f == ControllerGetAll([IdleFrame EXCEPT !.op = "GetAll"],
                                    authorStr, pageStr, limitStr)
          IN Begin(p, IF hasCache /\ f.limit = 0 /\ f.offset = 0
                      THEN [W |-> World, f |-> f]
                      ELSE GetAllCache(World, f, TRUE))

CallGetAll(p) == CallGetAllWith(p, PageParams, LimitParams)

DoGetAllCache(p) ==
    /\ At(p, "GetAll:cache")
    /\ \E cacheUp \in BOOLEAN : Commit(p, GetAllCache(World, frames[p], cacheUp))

DoGetAllRepo(p) ==
    /\ At(p, "GetAll:repo")
    /\ \E dbUp \in StorageUp : Commit(p, GetAllRepo(World, frames[p], dbUp))

CallUpdate(p) ==
    /\ CanCall(p)
    /\ \E id \in Ids, book \in UpdateInputs, t \in Times :
          Begin(p, UpdateValidate(WorldAt(t),
                     [IdleFrame EXCEPT !.op = "Update", !.id = id, !.book = book]))

DoUpdatePublished(p) ==
    /\ At(p, "Update:published")
    /\ \E t \in Times : Commit(p, UpdatePublished(WorldAt(t), frames[p]))

DoUpdateFetch(p) ==
    /\ At(p, "Update:fetch")
    /\ \E dbUp \in StorageUp : Commit(p, UpdateFetch(World, frames[p], dbUp))

DoUpdateExec(p) ==
    /\ At(p, "Update:exec")
    /\ \E dbUp \in StorageUp : Commit(p, UpdateExec(World, frames[p], dbUp))

CallDelete(p) ==
    /\ CanCall(p)
    /\ \E id \in Ids :
          Begin(p, [W |-> World,
                    f |-> [IdleFrame EXCEPT !.op = "Delete", !.id = id,
                                            !.pc = "Delete:fetch"]])

DoDeleteFetch(p) ==
    /\ At(p, "Delete:fetch")
    /\ \E dbUp \in StorageUp : Commit(p, DeleteFetch(World, frames[p], dbUp))

DoDeleteExec(p) ==
    /\ At(p, "Delete:exec")
    /\ \E dbUp \in StorageUp, t \in Times : Commit(p, DeleteExec(WorldAt(t), frames[p], dbUp))

\* the scheduler runs one command of a detached goroutine
Scheduled(redisUp) ==
    \E task \in BagToSet(tasks) :
        LET V == RunCmd(World, task, redisUp)
        IN /\ cache' = V.cache
           /\ tasks' = V.tasks
           /\ settled' = V.settled
           /\ UNCHANGED <<rows, frames, now, hasCache, nops, solo, ver, twin>>

Background == \E redisUp \in BOOLEAN : Scheduled(redisUp)

\* Redis drops an entry whose TTL has run out
Expire ==
    \E key \in DOMAIN cache :
        /\ cache' = [k \in DOMAIN cache \ {key} |-> cache[k]]
        /\ UNCHANGED <<rows, tasks, frames, now, hasCache, nops, solo, ver, settled, twin>>

Next ==
    \/ \E p \in Procs :
          \/ CallCreate(p) \/ DoCreateRepo(p)
          \/ CallGetByID(p) \/ DoGetByIDCache(p) \/ DoGetByIDRepo(p)
          \/ CallGetAll(p) \/ DoGetAllCache(p) \/ DoGetAllRepo(p)
          \/ CallUpdate(p) \/ DoUpdatePublished(p) \/ DoUpdateFetch(p) \/ DoUpdateExec(p)
          \/ CallDelete(p) \/ DoDeleteFetch(p) \/ DoDeleteExec(p)
    \/ Background
    \/ Expire

Spec == Init /\ [][Next]_vars

SpecSeq == InitSeq /\ [][Next]_vars

----------------------------------------------------------------------------
(* The service with a cache, Redis answering every command of the detached *)
(* goroutines, and callers that may give up: the context of a call is      *)
(* cancelled after the call has started its goroutine (by the client, or   *)
(* by net/http when the handler returns).  The Go scheduler runs every     *)
(* runnable goroutine, hence the weak fairness of BackgroundUp.            *)

InitLive ==
    /\ solo = FALSE
    /\ rows = SeedRows
    /\ cache = <<>>
    /\ tasks = EmptyBag
    /\ frames = [p \in Procs |-> IdleFrame]
    /\ now = TicksPerMicro
    /\ hasCache = TRUE
    /\ nops = MaxOps - MaxLiveOps
    /\ ver = 0
    /\ settled = 0
    /\ twin = NoTwin

\* the context of the call that started a goroutine is cancelled
Cancel ==
    \E task \in BagToSet(tasks) :
        /\ ~Head(task).cancelled
        /\ tasks' = (tasks (-) SetToBag({task}))
                       (+) SetToBag({[i \in 1..Len(task) |->
                                        [task[i] EXCEPT !.cancelled = TRUE]]})
        /\ UNCHANGED <<rows, cache, frames, now, hasCache, nops, solo, ver, settled, twin>>

BackgroundUp == Scheduled(TRUE)

NextLive ==
    \/ \E p \in Procs :
          \/ CallCreate(p) \/ DoCreateRepo(p)
          \/ CallGetByID(p) \/ DoGetByIDCache(p) \/ DoGetByIDRepo(p)
          \/ CallGetAll(p) \/ DoGetAllCache(p) \/ DoGetAllRepo(p)
          \/ CallUpdate(p) \/ DoUpdatePublished(p) \/ DoUpdateFetch(p) \/ DoUpdateExec(p)
          \/ CallDelete(p) \/ DoDeleteFetch(p) \/ DoDeleteExec(p)
    \/ BackgroundUp
    \/ Cancel
    \/ Expire

SpecLive == InitLive /\ [][NextLive]_vars /\ WF_vars(BackgroundUp)

----------------------------------------------------------------------------
(* The service with a cache, used by one caller at a time who starts a     *)
(* call only when the goroutine of the call before has run all its         *)
(* commands, Redis answering each of them.                                 *)

InitQuiet ==
    /\ solo = TRUE
    /\ rows = SeedRows
    /\ cache = <<>>
    /\ tasks = EmptyBag
    /\ frames = [p \in Procs |-> IdleFrame]
    /\ now = TicksPerMicro
    /\ hasCache = TRUE
    /\ nops = 0
    /\ ver = 0
    /\ settled = 0
    /\ twin = NoTwin

NextQuiet ==
    \/ /\ tasks = EmptyBag
       /\ \E p \in Procs :
             \/ CallCreate(p) \/ CallGetByID(p) \/ CallGetAll(p)
             \/ CallUpdate(p) \/ CallDelete(p)
    \/ \E p \in Procs :
          \/ DoCreateRepo(p)
          \/ DoGetByIDCache(p) \/ DoGetByIDRepo(p)
          \/ DoGetAllCache(p) \/ DoGetAllRepo(p)
          \/ DoUpdatePublished(p) \/ DoUpdateFetch(p) \/ DoUpdateExec(p)
          \/ DoDeleteFetch(p) \/ DoDeleteExec(p)
    \/ BackgroundUp
    \/ Expire

SpecQuiet == InitQuiet /\ [][NextQuiet]_vars

----------------------------------------------------------------------------
(* The listing asked for pages and limits up to the largest int, and past  *)
(* it, over a table that Creates and Deletes change; the calls arrive one  *)
(* at a time.                                                               *)

WidePageParams == { <<>>, <<"2">>, <<"3">>, <<"5">>, <<"9">>, <<"1", "5">>, <<"1", "6">> }

WideLimitParams == { <<>>, <<"4">>, <<"7">>, <<"1", "5">>, <<"1", "6">> }

CallGetAllWide(p) == CallGetAllWith(p, WidePageParams, WideLimitParams)

NextPage ==
    \/ \E p \in Procs :
          \/ CallGetAllWide(p) \/ DoGetAllCache(p) \/ DoGetAllRepo(p)
          \/ CallCreate(p) \/ DoCreateRepo(p)
          \/ CallDelete(p) \/ DoDeleteFetch(p) \/ DoDeleteExec(p)
    \/ Background
    \/ Expire

SpecPage == InitSeq /\ [][NextPage]_vars

----------------------------------------------------------------------------
(* Two services side by side.  The same calls, one at a time and with the  *)
(* same clock readings and the same storage outcomes, go to a service      *)
(* built without a cache (rows, frames["p1"]) and to a service whose cache *)
(* fails on every command (twin).                                          *)

\* what a call meets on its way: the readings t1 <= t2 of its first and second
\* time.Now(), and whether MySQL executes its first and second statement
Script(t1, t2, db1, db2) == [t1 |-> t1, t2 |-> t2, db1 |-> db1, db2 |-> db2]

\* the next step of the call in frame f
Serve(W, f, sc, cacheUp) ==
    CASE f.pc = "Create:repo" -> CreateRepo(W, f, sc.db1)
      [] f.pc = "GetByID:cache" -> GetByIDCache(W, f, cacheUp)
      [] f.pc = "GetByID:repo" -> GetByIDRepo(W, f, sc.db1)
      [] f.pc = "GetAll:cache" -> GetAllCache(W, f, cacheUp)
      [] f.pc = "GetAll:repo" -> GetAllRepo(W, f, sc.db1)
      [] f.pc = "Update:published" -> UpdatePublished([W EXCEPT !.now = sc.t2], f)
      [] f.pc = "Update:fetch" -> UpdateFetch(W, f, sc.db1)
      [] f.pc = "Update:exec" -> UpdateExec(W, f, sc.db2)
      [] f.pc = "Delete:fetch" -> DeleteFetch(W, f, sc.db1)
      [] f.pc = "Delete:exec" -> DeleteExec([W EXCEPT !.now = sc.t2], f, sc.db2)

\* the call in frame f runs until it returns
RECURSIVE Run(_, _, _, _)
Run(W, f, sc, cacheUp) ==
    IF Active(f)
    THEN LET r == Serve(W, f, sc, cacheUp) IN Run(r.W, r.f, sc, cacheUp)
    ELSE [W |-> W, f |-> f]

\* the first step of a call: the handler up to its first collaborator call
Enter(W, call, sc) ==
    CASE call.op = "Create" ->
            CreateStamp([W EXCEPT !.now = sc.t1],
                        [IdleFrame EXCEPT !.op = "Create", !.book = call.book])
      [] call.op = "GetByID" ->
            [W |-> W, f |-> [IdleFrame EXCEPT !.op = "GetByID", !.id = call.id,
                                              !.pc = "GetByID:cache"]]
      [] call.op = "GetAll" ->
            [W |-> W, f |-> ControllerGetAll([IdleFrame EXCEPT !.op = "GetAll"],
                                             call.author, call.page, call.limit)]
      [] call.op = "Update" ->
            UpdateValidate([W EXCEPT !.now = sc.t1],
                           [IdleFrame EXCEPT !.op = "Update", !.id = call.id,
                                             !.book = call.book])
      [] call.op = "Delete" ->
            [W |-> W, f |-> [IdleFrame EXCEPT !.op = "Delete", !.id = call.id,
                                              !.pc = "Delete:fetch"]]

Call(op, id, book, author, page, limit) ==
    [op |-> op, id |-> id, book |-> book, author |-> author, page |-> page, limit |-> limit]

InitEq ==
    /\ solo = TRUE
    /\ rows = SeedRows
    /\ cache = <<>>
    /\ tasks = EmptyBag
    /\ frames = [p \in Procs |-> IdleFrame]
    /\ now = TicksPerMicro
    /\ hasCache = FALSE
    /\ nops = 0
    /\ ver = 0
    /\ settled = 0
    /\ twin = [W |-> [World EXCEPT !.hasCache = TRUE], f |-> IdleFrame]

\* both services serve the call to its return
Both(call, sc) ==
    \E r \in { [n |-> Run(Enter(World, call, sc).W, Enter(World, call, sc).f, sc, TRUE),
                c |-> Run(Enter(twin.W, call, sc).W, Enter(twin.W, call, sc).f, sc, FALSE)] } :
       /\ rows' = r.n.W.rows
       /\ cache' = r.n.W.cache
       /\ tasks' = r.n.W.tasks
       /\ now' = r.n.W.now
       /\ ver' = r.n.W.ver
       /\ frames' = [frames EXCEPT !["p1"] = r.n.f]
       /\ twin' = [W |-> r.c.W, f |-> r.c.f]
       /\ nops' = nops + 1
       /\ UNCHANGED <<hasCache, solo, settled>>

\* the second service can still start the goroutine of one more call
CanServe == nops < MaxOps /\ BagCardinality(twin.W.tasks) < MaxTasks

EqCreate ==
    /\ CanServe
    /\ Len(rows) < MaxRows
    /\ \E book \in CreateInputs, t \in Times, db \in BOOLEAN :
          Both(Call("Create", 0, book, "", <<>>, <<>>), Script(t, t, db, TRUE))

EqGetByID ==
    /\ CanServe
    /\ \E id \in Ids, db \in BOOLEAN :
          Both(Call("GetByID", id, ZeroBook, "", <<>>, <<>>), Script(now, now, db, TRUE))

EqGetAll ==
    /\ CanServe
    /\ \E authorStr \in AuthorParams, pageStr \in PageParams, limitStr \in LimitParams,
       db \in BOOLEAN :
          Both(Call("GetAll", 0, ZeroBook, authorStr, pageStr, limitStr),
               Script(now, now, db, TRUE))

EqUpdate ==
    /\ CanServe
    /\ \E id \in Ids, book \in UpdateInputs, t1 \in Times, db1 \in BOOLEAN, db2 \in BOOLEAN :
       \E t2 \in {t \in Times : t >= t1} :
          Both(Call("Update", id, book, "", <<>>, <<>>), Script(t1, t2, db1, db2))

EqDelete ==
    /\ CanServe
    /\ \E id \in Ids, t \in Times, db1 \in BOOLEAN, db2 \in BOOLEAN :
          Both(Call("Delete", id, ZeroBook, "", <<>>, <<>>), Script(now, t, db1, db2))

\* a detached goroutine of the second service runs its next command, which fails
EqBackground ==
    /\ \E task \in BagToSet(twin.W.tasks) :
          twin' = [twin EXCEPT !.W = RunCmd(twin.W, task, FALSE)]
    /\ UNCHANGED <<rows, cache, tasks, frames, now, hasCache, nops, solo, ver, settled>>

NextEq == EqCreate \/ EqGetByID \/ EqGetAll \/ EqUpdate \/ EqDelete \/ EqBackground

SpecEq == InitEq /\ [][NextEq]_vars

----------------------------------------------------------------------------
(* Vocabulary of the properties *)

Done(f) == f.pc = "done"

RepoCalls == {"repo.Create", "repo.GetByID", "repo.GetAll", "repo.Update", "repo.Delete"}

\* the call went to the Repository
ReadRepo(f) == \E i \in 1..Len(f.trace) : f.trace[i] \in RepoCalls

\* the call asked the cache
Consulted(f) == \E i \in 1..Len(f.trace) : f.trace[i] = "cache.Get"

\* Cache.Get answered with the entry
Hit(f) == Consulted(f) /\ f.cerr = OK

Mutations == {"Create", "Update", "Delete"}

Authors == {b.author : b \in CreateInputs \cup UpdateInputs} \ {""}

AuthorKeys == {getAllCacheKey(Some(a)) : a \in Authors}

AllKey == "books:books:getall:all"

IdKey(id) == "books:books:getbyid:" \o ToString(id)

Deletion(key) ==
    [cmd |-> "Delete", key |-> key, val |-> NoValue, ttl |-> 0, ctx |-> "Background"]

----------------------------------------------------------------------------
(* C1 *)

\* C1: whatever the cache answers, a call never returns a cache error (the
\* miss included); a call whose Cache.Get missed or failed goes on to the
\* Repository, and a call that reached the Repository returns exactly the
\* value and the error the Repository produced.  The errors of Cache.Set and
\* Cache.Delete arise in detached goroutines after the call has returned.
C1_CacheErrorsAbsorbed ==
    \A p \in Procs :
        LET f == frames[p]
        IN Done(f) =>
             /\ f.ret.err \notin {ErrCacheMiss, ErrCacheFailure}
             /\ f.cerr \in {ErrCacheMiss, ErrCacheFailure} => ReadRepo(f)
             /\ ReadRepo(f) => f.ret = f.res

\* a read whose Cache.Get failed returned the Repository's book or list
C1_Witness ==
    \E p \in Procs :
        LET f == frames[p]
        IN Done(f) /\ f.cerr = ErrCacheFailure /\ f.ret.err = OK /\ ~f.ret.val.nil

----------------------------------------------------------------------------
(* C3 *)

\* C3 as stated: every GetByID on an id that is absent or soft-deleted when
\* the call looks it up fails with NotFound.
C3_Original ==
    \A p \in Procs :
        LET f == frames[p]
        IN Done(f) /\ f.op = "GetByID" /\ f.gone /\ f.res.err # ErrStorage
             => f.ret.err = ErrBookNotFound

\* C3: a GetByID that reads the Repository (no cache, a miss, or a failed
\* Cache.Get) on an id that is absent or soft-deleted at that read fails with
\* NotFound, unless the read itself fails.
C3_NotFoundFromRepository ==
    \A p \in Procs :
        LET f == frames[p]
        IN Done(f) /\ f.op = "GetByID" /\ f.gone /\ ~Hit(f) /\ f.res.err # ErrStorage
             => f.ret.err = ErrBookNotFound /\ f.ret.val.nil

\* a GetByID missed the cache and read a soft-deleted row
C3_Witness ==
    \E p \in Procs :
        LET f == frames[p]
        IN /\ Done(f) /\ f.op = "GetByID" /\ f.cerr = ErrCacheMiss
           /\ f.id \in 1..Len(rows) /\ rows[f.id].deletedAt # NoTime /\ f.gone
           /\ f.ret.err = ErrBookNotFound

----------------------------------------------------------------------------
(* C4 *)

\* the call is a GetAll with no author filter and no pagination
PlainGetAll(f) == f.op = "GetAll" /\ ~HasAuthor(f.author) /\ f.limit = 0 /\ f.offset = 0

\* C4 as stated: a plain GetAll that starts after an Update's invalidation
\* has finished both deletes returns the table as of that Update or later.
C4_Original ==
    \A p \in Procs :
        LET f == frames[p]
        IN Done(f) /\ PlainGetAll(f) /\ f.ret.err = OK => f.dver >= f.since

\* C4: a plain GetAll that starts after an Update's invalidation has finished
\* both deletes returns the table as of that Update or later, unless it hits
\* an entry that a populate goroutine wrote after that invalidation from a
\* read made before the Update.
C4_FreshUnlessLatePopulate ==
    \A p \in Procs :
        LET f == frames[p]
        IN Done(f) /\ PlainGetAll(f) /\ f.ret.err = OK /\ ~(Hit(f) /\ f.late)
             => f.dver >= f.since

\* a plain GetAll started after an invalidation finished and returned the list
C4_Witness ==
    \E p \in Procs :
        LET f == frames[p]
        IN /\ Done(f) /\ PlainGetAll(f) /\ f.ret.err = OK /\ hasCache
           /\ f.since > 0 /\ f.dver >= f.since
           /\ f.ret.val = RepoGetAll(rows, Nil, 0, 0)

----------------------------------------------------------------------------
(* C5 *)

\* C5: the step of GetByID in which Cache.Get succeeds returns the entity
\* decoded from the entry; it makes no Repository call, starts no goroutine
\* and leaves the table, the cache and the pending cache commands as they were.
C5_HitReturnsEntry ==
    [][\A p \in Procs :
         frames[p].pc = "GetByID:cache" /\ frames'[p].cerr = OK =>
           /\ IdKey(frames[p].id) \in DOMAIN cache
           /\ Done(frames'[p])
           /\ frames'[p].ret =
                [err |-> OK, val |-> Unmarshal(cache[IdKey(frames[p].id)].val, "Book").val]
           /\ frames'[p].trace = <<"cache.Get">>
           /\ frames'[p].spawned = <<>>
           /\ rows' = rows /\ cache' = cache /\ tasks' = tasks]_vars

\* a GetByID returned the cached entity
C5_Witness ==
    \E p \in Procs :
        LET f == frames[p]
        IN Done(f) /\ f.op = "GetByID" /\ Hit(f) /\ ~f.ret.val.nil /\ f.ret.val.v[1].id = f.id

----------------------------------------------------------------------------
(* C6 *)

\* C6 as stated: a GetAll with a recognized page or a recognized limit never
\* reads the cache and starts no cache write, and a GetAll with neither asks
\* the cache when there is one.
C6_Original ==
    \A p \in Procs :
        LET f == frames[p]
        IN Done(f) /\ f.op = "GetAll" =>
             /\ f.hasPage \/ f.hasLimit => ~Consulted(f) /\ f.spawned = <<>>
             /\ hasCache /\ ~f.hasPage /\ ~f.hasLimit => Consulted(f)

\* C6: a GetAll with a recognized limit never reads the cache and starts no
\* cache write: it goes straight to the Repository.  A GetAll without a
\* recognized limit asks the cache when there is one, whether or not a page
\* was given: a page without a limit is ignored.
C6_LimitBypassesCache ==
    \A p \in Procs :
        LET f == frames[p]
        IN Done(f) /\ f.op = "GetAll" =>
             /\ f.hasLimit => ~Consulted(f) /\ f.spawned = <<>> /\ f.trace = <<"repo.GetAll">>
             /\ hasCache /\ ~f.hasLimit => Consulted(f)

\* a GetAll with page and limit returned a slice while a cache is configured
C6_Witness ==
    \E p \in Procs :
        LET f == frames[p]
        IN /\ Done(f) /\ f.op = "GetAll" /\ hasCache
           /\ f.hasLimit /\ f.hasPage /\ f.ret.err = OK /\ f.ret.val.v # <<>>

----------------------------------------------------------------------------
(* C7 *)

\* C7: a Create whose Repository.Create succeeded, with a cache present, has
\* started exactly one goroutine, and that goroutine issues exactly one
\* command: the Delete of books:books:getall:all.
C7_CreateDeletesAllKey ==
    \A p \in Procs :
        LET f == frames[p]
        IN Done(f) /\ f.op = "Create" /\ f.ret.err = OK /\ hasCache
             => f.spawned = << <<Deletion(AllKey)>> >>

\* a Create succeeded with a cache present
C7_Witness ==
    \E p \in Procs :
        LET f == frames[p]
        IN /\ Done(f) /\ f.op = "Create" /\ f.ret.err = OK /\ hasCache
           /\ Len(rows) = 2 /\ f.ret.val.v[1].id = 2

----------------------------------------------------------------------------
(* C8 *)

\* C8: an Update or a Delete of id whose Repository call succeeded, with a
\* cache present, has started exactly one goroutine, and that goroutine
\* issues exactly two commands: the Delete of books:books:getbyid:<id> and
\* the Delete of books:books:getall:all.
C8_MutationDeletesIdAndAllKey ==
    \A p \in Procs :
        LET f == frames[p]
        IN Done(f) /\ f.op \in {"Update", "Delete"} /\ f.ret.err = OK /\ hasCache
             => f.spawned = << <<Deletion(IdKey(f.id)), Deletion(AllKey)>> >>

\* an Update and a Delete have both succeeded with a cache present
C8_Witness ==
    /\ hasCache
    /\ \E p \in Procs : Done(frames[p]) /\ frames[p].op = "Delete" /\ frames[p].ret.err = OK
    /\ \E p \in Procs : Done(frames[p]) /\ frames[p].op = "Update" /\ frames[p].ret.err = OK

----------------------------------------------------------------------------
(* C9 *)

\* the entry under key k differs between the two states of a step
EntryChanged(k) ==
    \/ (k \in DOMAIN cache) # (k \in DOMAIN cache')
    \/ k \in DOMAIN cache /\ k \in DOMAIN cache' /\ cache[k] # cache'[k]

\* the step is the Cache.Set of a GetAll's populate goroutine on key k
PopulatedByGetAll(k) ==
    \E task \in BagToSet(tasks) :
        /\ Head(task).cmd = "Set" /\ Head(task).key = k /\ Head(task).by = "GetAll"
        /\ tasks' = tasks (-) SetToBag({task})
        /\ k \in DOMAIN cache' /\ cache'[k].val = Marshal(Head(task).val)

\* the step is the expiry of the entry under key k
Expired(k) ==
    k \in DOMAIN cache /\ k \notin DOMAIN cache' /\ tasks' = tasks /\ frames' = frames

\* C9: no goroutine started by a Create, an Update or a Delete holds a command
\* on an author-filtered key, and the entry under such a key changes only when
\* the populate goroutine of a GetAll sets it or when it expires.
C9_AuthorKeysLeftAlone ==
    [][/\ \A task \in BagToSet(tasks) : \A i \in 1..Len(task) :
             task[i].by \in Mutations => task[i].key \notin AuthorKeys
       /\ \A k \in AuthorKeys : EntryChanged(k) => PopulatedByGetAll(k) \/ Expired(k)]_vars

\* an author-filtered entry is older than the table, every mutation has
\* returned and no cache command is pending
C9_Witness ==
    \E k \in AuthorKeys :
        /\ k \in DOMAIN cache /\ cache[k].h.ver < ver
        /\ Unmarshal(cache[k].val, "Books").val # RepoGetAll(rows, Some("A1"), 0, 0)
        /\ k = getAllCacheKey(Some("A1"))
        /\ tasks = EmptyBag
        /\ \A p \in Procs : ~Active(frames[p])

----------------------------------------------------------------------------
(* C10 *)

\* C10: no step changes any field of a row whose deletedAt is set.
C10_DeletedIsTerminal ==
    [][\A i \in 1..Len(rows) :
         rows[i].deletedAt # NoTime => i \in 1..Len(rows') /\ rows'[i] = rows[i]]_vars

\* an Update returned success although its row was already soft-deleted when
\* its UPDATE statement ran
C10_Witness ==
    \E p \in Procs :
        LET f == frames[p]
        IN /\ Done(f) /\ f.op = "Update" /\ f.ret.err = OK /\ f.gone
           /\ rows[f.id].deletedAt # NoTime
           /\ rows[f.id].title # f.ret.val.v[1].title

----------------------------------------------------------------------------
(* C2 *)

\* C2: after any sequence of calls served by both, the service without a
\* cache and the service whose cache fails on every command have returned the
\* same value and the same error from the latest call, and their tables are
\* equal.
C2_NilCacheEqualsFailingCache ==
    /\ frames["p1"].ret = twin.f.ret
    /\ frames["p1"].pc = twin.f.pc
    /\ rows = twin.W.rows

\* after a write, a read returned a value from both services; the second one
\* had asked its cache, and its cache commands have been failing
C2_Witness ==
    /\ Done(twin.f) /\ twin.f.cerr = ErrCacheFailure /\ ~Consulted(frames["p1"])
    /\ twin.f.ret.err = OK /\ ~twin.f.ret.val.nil
    /\ twin.W.ver > 0 /\ twin.W.cache = <<>>
    /\ twin.W.tasks # EmptyBag

----------------------------------------------------------------------------
(* C11 *)

\* an active row other than row self holds the triple of book
ActiveTriple(table, book, self) ==
    \E i \in 1..Len(table) :
        i # self /\ table[i].deletedAt = NoTime /\ Triple(table[i]) = Triple(book)

\* goroutine p takes a step
Steps(p) == frames'[p] # frames[p]

\* C11: the Repository.Create of a book whose (title, author, isbn) is held by
\* an active row fails with AlreadyExists; the call returns that error and no
\* book, the table and the cache are left as they were and no goroutine starts.
C11_DuplicateCreateRefused ==
    [][\A p \in Procs :
         frames[p].pc = "Create:repo" /\ Steps(p) /\ ActiveTriple(rows, frames[p].book, 0) =>
           /\ Done(frames'[p])
           /\ frames'[p].ret = [err |-> ErrBookAlreadyExists, val |-> NilOf("Book")]
           /\ frames'[p].spawned = <<>>
           /\ rows' = rows /\ cache' = cache /\ tasks' = tasks]_vars

\* a Create of the triple of an active row was refused with a cache present
C11_Witness ==
    \E p \in Procs :
        LET f == frames[p]
        IN /\ Done(f) /\ f.op = "Create" /\ f.ret.err = ErrBookAlreadyExists
           /\ ActiveTriple(rows, f.book, 0) /\ hasCache

----------------------------------------------------------------------------
(* C12 *)

\* C12 as stated: a Create whose triple no active row holds succeeds, and so
\* does the UPDATE of an active row to a triple no other active row holds,
\* whatever soft-deleted rows hold that triple.
C12_DeletedDoesNotBlock ==
    [][\A p \in Procs :
         /\ frames[p].pc = "Create:repo" /\ Steps(p)
              /\ ~ActiveTriple(rows, frames[p].book, 0)
              => frames'[p].ret.err = OK
         /\ frames[p].pc = "Update:exec" /\ Steps(p) /\ ~Gone(rows, frames[p].id)
              /\ ~ActiveTriple(rows, frames[p].book, frames[p].id)
              => frames'[p].ret.err = OK]_vars

----------------------------------------------------------------------------
(* C13 *)

\* C13: no two active rows hold the same (title, author, isbn).
C13_UniqueAmongActive ==
    \A i, j \in 1..Len(rows) :
        i # j /\ rows[i].deletedAt = NoTime /\ rows[j].deletedAt = NoTime
          => Triple(rows[i]) # Triple(rows[j])

\* a Create and an Update that overlapped asked for the same triple: one of
\* them got it, the other was refused, and two rows are active
C13_Witness ==
    \E p, q \in Procs :
        /\ Done(frames[p]) /\ frames[p].op = "Create"
        /\ Done(frames[q]) /\ frames[q].op = "Update"
        /\ Triple(frames[p].book) = Triple(frames[q].book)
        /\ {frames[p].ret.err, frames[q].ret.err} = {OK, ErrBookAlreadyExists}
        /\ Len(rows) = 2 /\ \A i \in 1..2 : rows[i].deletedAt = NoTime

----------------------------------------------------------------------------
(* C14 *)

\* C14: a Delete that finds its id absent or soft-deleted returns NotFound,
\* leaves the table, the cache and the pending cache commands as they were
\* and starts no goroutine.  (An id that is gone when the call is made is
\* still gone at this lookup: no step changes a soft-deleted row.)
C14_DeleteOfGoneNotFound ==
    [][\A p \in Procs :
         frames[p].pc = "Delete:fetch" /\ Steps(p) /\ Gone(rows, frames[p].id) =>
           /\ Done(frames'[p])
           /\ frames'[p].ret = [err |-> ErrBookNotFound, val |-> NoValue]
           /\ frames'[p].spawned = <<>>
           /\ rows' = rows /\ cache' = cache /\ tasks' = tasks]_vars

\* a second Delete of a soft-deleted book returned NotFound
C14_Witness ==
    \E p \in Procs :
        LET f == frames[p]
        IN /\ Done(f) /\ f.op = "Delete" /\ f.ret.err = ErrBookNotFound
           /\ f.id \in 1..Len(rows) /\ rows[f.id].deletedAt # NoTime /\ hasCache

----------------------------------------------------------------------------
(* C15 *)

\* C15 as stated: a GetByID that follows a successful Create at once, on the
\* id that Create returned, returns a book equal in every field to the one
\* Create returned, and its createdAt equals its updatedAt.  (The Create is
\* one with a title and an author whose caller left deletedAt unset, as the
\* controller does; the read is one the storage engine answers.)
C15_ReadBackIdentical ==
    \A p \in Procs :
        LET f == frames[p]
        IN Done(f) /\ f.op = "GetByID" /\ ~f.created.nil /\ f.id = f.created.v[1].id
             /\ f.created.v[1].title # "" /\ f.created.v[1].author # ""
             /\ f.created.v[1].deletedAt = NoTime /\ f.res.err # ErrStorage
             => /\ f.ret.err = OK
                /\ f.ret.val = f.created
                /\ f.ret.val.v[1].createdAt = f.ret.val.v[1].updatedAt

----------------------------------------------------------------------------
(* C16 *)

\* the book lacks a required field
Invalid(book) == book.title = "" \/ book.author = ""

\* C16 as stated: a Create of a book with an empty title or an empty author
\* returns InvalidData and has called neither the Repository nor the cache.
C16_CreateValidates ==
    \A p \in Procs :
        LET f == frames[p]
        IN Done(f) /\ f.op = "Create" /\ Invalid(f.book)
             => f.ret.err = ErrInvalidBookData /\ f.trace = <<>> /\ f.spawned = <<>>

----------------------------------------------------------------------------
(* C17 *)

\* C17: the step in which an Update of a book with an empty title or an empty
\* author is called ends the call: it returns InvalidData and no book, it has
\* called no collaborator and started no goroutine, and the table, the cache
\* and the pending cache commands are as they were.
C17_UpdateValidatesFirst ==
    [][\A p \in Procs :
         nops' = nops + 1 /\ Steps(p) /\ frames'[p].op = "Update" /\ Invalid(frames'[p].book) =>
           /\ Done(frames'[p])
           /\ frames'[p].ret = [err |-> ErrInvalidBookData, val |-> NilOf("Book")]
           /\ frames'[p].trace = <<>> /\ frames'[p].spawned = <<>>
           /\ rows' = rows /\ cache' = cache /\ tasks' = tasks]_vars

\* an Update with an empty author was refused while a cache entry and the
\* row it names exist
C17_Witness ==
    \E p \in Procs :
        LET f == frames[p]
        IN /\ Done(f) /\ f.op = "Update" /\ f.book.author = ""
           /\ f.ret.err = ErrInvalidBookData
           /\ ~Gone(rows, f.id) /\ IdKey(f.id) \in DOMAIN cache

----------------------------------------------------------------------------
(* Vocabulary of pagination *)

\* the decimal numeral of n, as the characters of a query parameter
Numeral(n) == <<ToString(n)>>

\* the parameter is a positive integer
Positive(str) == \E n \in 1..9 : str = Numeral(n)

ValueOf(str) == CHOOSE n \in 1..9 : str = Numeral(n)

\* the parameter is given and is non-numeric or not positive
Bad(str) == str # <<>> /\ ~Positive(str)

\* the request without the parameter when it is bad
Without(str) == IF Bad(str) THEN <<>> ELSE str

\* the ids of the active rows that match the author filter ("" is no filter)
Matching(table, author) ==
    {i \in 1..Len(table) :
        table[i].deletedAt = NoTime /\ (author = "" \/ table[i].author = author)}

\* the k-th smallest element of S
Nth(S, k) == CHOOSE i \in S : Cardinality({j \in S : j < i}) = k - 1

\* the matching rows at index range [from, to), by ascending id, cut at the end
Window(table, author, from, to) ==
    LET S == Matching(table, author)
        last == IF to < Cardinality(S) THEN to ELSE Cardinality(S)
    IN [k \in 1..(last - from) |-> table[Nth(S, from + k)]]

AuthorOf(f) == IF f.author = Nil THEN "" ELSE f.author[1]

----------------------------------------------------------------------------
(* C18 *)

\* C18: a GetAll with page P and limit L, both positive integers, that the
\* storage engine answers returns success and the matching active rows at
\* index range [(P-1)*L, P*L) by ascending id, cut at the end of the data: the
\* empty collection when the page lies beyond the data.
C18_PageWindow ==
    \A p \in Procs :
        LET f == frames[p]
        IN Done(f) /\ f.op = "GetAll" /\ Positive(f.pageStr) /\ Positive(f.limitStr)
             /\ f.res.err # ErrStorage
             => LET P == ValueOf(f.pageStr)
                    L == ValueOf(f.limitStr)
                IN /\ f.ret.err = OK
                   /\ f.ret.val = Books(Window(rows, AuthorOf(f), (P - 1) * L, P * L))

\* page 2 with limit 1 over two active rows returned the second row alone
C18_Witness ==
    \E p \in Procs :
        LET f == frames[p]
        IN /\ Done(f) /\ f.op = "GetAll" /\ f.pageStr = Numeral(2) /\ f.limitStr = Numeral(1)
           /\ Cardinality(Matching(rows, AuthorOf(f))) = 2
           /\ f.ret.err = OK /\ f.ret.val.v = <<rows[2]>>

----------------------------------------------------------------------------
(* C19 *)

\* C19 as stated: a GetAll without a positive limit returns every matching
\* active row whatever its page, and is handed to the service with limit 0
\* and offset 0; a GetAll with a positive limit and no positive page returns
\* the first limit matching rows.
C19_Original ==
    \A p \in Procs :
        LET f == frames[p]
            n == Cardinality(Matching(rows, AuthorOf(f)))
        IN Done(f) /\ f.op = "GetAll" /\ f.ret.err = OK =>
             /\ ~Positive(f.limitStr) =>
                  /\ f.limit = 0 /\ f.offset = 0
                  /\ f.ret.val = Books(Window(rows, AuthorOf(f), 0, n))
             /\ Positive(f.limitStr) /\ ~Positive(f.pageStr) =>
                  /\ f.offset = 0
                  /\ f.ret.val = Books(Window(rows, AuthorOf(f), 0, ValueOf(f.limitStr)))

\* C19: a GetAll without a positive limit is handed to the service with limit
\* 0 and offset 0 whatever its page, and when it reads the Repository (no
\* cache, a miss or a failed Cache.Get) it returns every matching active row;
\* a GetAll with a positive limit and no positive page returns the first
\* limit matching rows.
C19_NoLimitReturnsAll ==
    \A p \in Procs :
        LET f == frames[p]
            n == Cardinality(Matching(rows, AuthorOf(f)))
        IN Done(f) /\ f.op = "GetAll" /\ f.ret.err = OK =>
             /\ ~Positive(f.limitStr) =>
                  /\ f.limit = 0 /\ f.offset = 0
                  /\ ~Hit(f) => f.ret.val = Books(Window(rows, AuthorOf(f), 0, n))
             /\ Positive(f.limitStr) /\ ~Positive(f.pageStr) =>
                  /\ f.offset = 0
                  /\ f.ret.val = Books(Window(rows, AuthorOf(f), 0, ValueOf(f.limitStr)))

\* a GetAll with page 2 and no limit read the Repository and returned both
\* active rows
C19_Witness ==
    \E p \in Procs :
        LET f == frames[p]
        IN /\ Done(f) /\ f.op = "GetAll" /\ f.pageStr = Numeral(2) /\ f.limitStr = <<>>
           /\ ReadRepo(f) /\ f.ret.err = OK /\ Len(f.ret.val.v) = 2

----------------------------------------------------------------------------
(* C20 *)

\* the rows the pagination rules give a request whose parameters are absent
\* or positive integers
Records(table, author, pageStr, limitStr) ==
    LET n == Cardinality(Matching(table, author))
    IN IF limitStr = <<>> THEN Window(table, author, 0, n)
       ELSE IF pageStr = <<>> THEN Window(table, author, 0, ValueOf(limitStr))
       ELSE Window(table, author, (ValueOf(pageStr) - 1) * ValueOf(limitStr),
                   ValueOf(pageStr) * ValueOf(limitStr))

\* C20: a GetAll with a page or a limit that is non-numeric or not positive
\* reaches the service with the arguments of the request without that
\* parameter, fails only if the storage engine fails, and when it reads the
\* Repository returns the rows the request without that parameter is due.
C20_BadParameterIsAbsent ==
    \A p \in Procs :
        LET f == frames[p]
            page == Without(f.pageStr)
            limit == Without(f.limitStr)
        IN f.op = "GetAll" /\ (Bad(f.pageStr) \/ Bad(f.limitStr)) =>
             /\ f.hasPage = (page # <<>>) /\ f.hasLimit = (limit # <<>>)
             /\ f.limit = IF limit # <<>> THEN ValueOf(limit) ELSE 0
             /\ f.offset = IF limit # <<>> /\ page # <<>>
                           THEN (ValueOf(page) - 1) * ValueOf(limit) ELSE 0
             /\ Done(f) => f.ret.err \in {OK, ErrStorage} /\ f.ret.err = f.res.err
             /\ Done(f) /\ ReadRepo(f) /\ f.ret.err = OK
                  => f.ret.val = Books(Records(rows, AuthorOf(f), page, limit))

\* a GetAll with page "x" and limit 1 over two active rows returned the first
C20_Witness ==
    \E p \in Procs :
        LET f == frames[p]
        IN /\ Done(f) /\ f.op = "GetAll" /\ f.pageStr = <<"x">> /\ f.limitStr = Numeral(1)
           /\ Cardinality(Matching(rows, AuthorOf(f))) = 2
           /\ f.ret.err = OK /\ f.ret.val.v = <<rows[1]>>

----------------------------------------------------------------------------
(* C21 *)

\* the list is exactly the active rows of the table by that author (any author
\* when the filter is absent or empty), each once, by ascending id
ExactListing(list, table, author) ==
    /\ \A k \in 1..Len(list) :
          /\ list[k].id \in 1..Len(table) /\ list[k] = table[list[k].id]
          /\ list[k].deletedAt = NoTime
          /\ author # "" => list[k].author = author
    /\ \A k \in 1..(Len(list) - 1) : list[k].id < list[k + 1].id
    /\ \A i \in Matching(table, author) : \E k \in 1..Len(list) : list[k].id = i

\* C21 as stated: a successful GetAll without a limit returns a collection
\* that is present (empty when nothing matches) and lists exactly the active
\* rows matching the author filter, no soft-deleted row, by ascending id.
C21_Original ==
    \A p \in Procs :
        LET f == frames[p]
        IN Done(f) /\ f.op = "GetAll" /\ f.limit = 0 /\ f.ret.err = OK =>
             /\ ~f.ret.val.nil
             /\ ExactListing(f.ret.val.v, rows, AuthorOf(f))

\* C21: a successful GetAll without a limit returns a collection that is
\* present (empty when nothing matched), and when it reads the Repository (no
\* cache, a miss or a failed Cache.Get) the collection lists exactly the
\* active rows matching the author filter, no soft-deleted row, by ascending
\* id; a cache hit returns the list as it was when the entry was written.
C21_ListsActiveMatches ==
    \A p \in Procs :
        LET f == frames[p]
        IN Done(f) /\ f.op = "GetAll" /\ f.limit = 0 /\ f.ret.err = OK =>
             /\ ~f.ret.val.nil
             /\ ~Hit(f) => ExactListing(f.ret.val.v, rows, AuthorOf(f))

\* a GetAll by author A1 without a limit read a table holding an active row by
\* A1 and a row by another author, and returned the first alone
C21_Witness ==
    \E p \in Procs :
        LET f == frames[p]
        IN /\ Done(f) /\ f.op = "GetAll" /\ f.limit = 0 /\ AuthorOf(f) = "A1"
           /\ ReadRepo(f) /\ f.ret.err = OK
           /\ \E i \in 1..Len(rows) : rows[i].author # "A1"
           /\ Len(f.ret.val.v) = 1 /\ f.ret.val.v[1].author = "A1"

----------------------------------------------------------------------------
(* C22 *)

\* the Repository method each service operation calls
RepoCallOf(op) ==
    CASE op = "Create" -> "repo.Create" [] op = "GetByID" -> "repo.GetByID"
      [] op = "GetAll" -> "repo.GetAll" [] op = "Update" -> "repo.Update"
      [] op = "Delete" -> "repo.Delete" [] OTHER -> "none"

\* C22: a call of Create, GetByID, GetAll, Update or Delete whose Repository
\* call failed returns no value and an error whose cause is the Repository's
\* error, whether NotFound, AlreadyExists or any other failure, so that the
\* error middleware answers 404, 400 and 500 respectively.
C22_RepositoryErrorsSurface ==
    \A p \in Procs :
        LET f == frames[p]
        IN Done(f) /\ f.op \in {"Create", "GetByID", "GetAll", "Update", "Delete"}
             /\ (\E i \in 1..Len(f.trace) : f.trace[i] = RepoCallOf(f.op))
             /\ f.res.err # OK
             => /\ f.raised # <<>> /\ Cause(f.raised) = f.res.err
                /\ f.ret.val \in {NilOf("Book"), NilOf("Books"), NoValue}
                /\ ErrorHandler(f.raised).code =
                     CASE f.res.err = ErrBookNotFound -> 404
                       [] f.res.err = ErrBookAlreadyExists -> 400
                       [] OTHER -> 500

\* an Update that the Repository refused with AlreadyExists returned an error
\* with that cause
C22_Witness ==
    \E p \in Procs :
        LET f == frames[p]
        IN /\ Done(f) /\ f.op = "Update" /\ f.res.err = ErrBookAlreadyExists
           /\ f.raised = WithStack(ErrBookAlreadyExists)

----------------------------------------------------------------------------
(* C23 *)

\* C23 as stated: every row has createdAt <= updatedAt, whatever the
\* interleaving of the Creates and Updates.
C23_CreatedBeforeUpdated ==
    \A i \in 1..Len(rows) : rows[i].createdAt <= rows[i].updatedAt

----------------------------------------------------------------------------
(* C24 *)

\* C24 as stated: the UPDATE of an Update that returns success leaves the row
\* with an updatedAt later than the one it had before, also when other
\* Updates of the same id are in progress.
C24_UpdatedAtAdvances ==
    [][\A p \in Procs :
         frames[p].pc = "Update:exec" /\ Steps(p) /\ frames'[p].ret.err = OK
           /\ frames[p].id \in 1..Len(rows)
           => rows'[frames[p].id].updatedAt > rows[frames[p].id].updatedAt]_vars

----------------------------------------------------------------------------
(* C25 *)

\* C25: no step of an Update adds or removes a row, changes a row other than
\* the one addressed, or changes the id, createdAt or deletedAt of the row
\* addressed; the UPDATE of an Update that returns success and finds its row
\* active leaves it with the title, author, isbn, description, publishedAt
\* and updatedAt of the request.
C25_UpdateOverwritesOnlyItsFields ==
    [][\A p \in Procs :
         LET f == frames[p]
         IN f.op = "Update" /\ Steps(p) =>
              /\ Len(rows') = Len(rows)
              /\ \A i \in 1..Len(rows) :
                    /\ i # f.id => rows'[i] = rows[i]
                    /\ rows'[i].id = rows[i].id
                    /\ rows'[i].createdAt = rows[i].createdAt
                    /\ rows'[i].deletedAt = rows[i].deletedAt
              /\ f.pc = "Update:exec" /\ frames'[p].ret.err = OK /\ ~Gone(rows, f.id) =>
                    LET row == rows'[f.id]
                    IN /\ row.title = f.book.title /\ row.author = f.book.author
                       /\ row.isbn = f.book.isbn /\ row.description = f.book.description
                       /\ row.publishedAt = Datetime6(f.book.publishedAt)
                       /\ row.updatedAt = Datetime6(f.book.updatedAt)]_vars

\* an Update of row 1 returned success and the row holds its description and
\* a later updatedAt, beside a second row
C25_Witness ==
    \E p \in Procs :
        LET f == frames[p]
        IN /\ Done(f) /\ f.op = "Update" /\ f.id = 1 /\ f.ret.err = OK /\ ~f.gone
           /\ Len(rows) = 2
           /\ rows[1].description = f.book.description
           /\ rows[1].description # SeedRows[1].description
           /\ rows[1].createdAt < rows[1].updatedAt

----------------------------------------------------------------------------
(* C26 *)

\* C26: the UPDATE of an Update whose row was soft-deleted after the Update
\* fetched it changes no row, and the Update returns success with a book
\* whose deletedAt is absent although the row's deletedAt is set.
C26_DeleteDuringUpdateUndetected ==
    [][\A p \in Procs :
         LET f == frames[p]
         IN f.pc = "Update:exec" /\ Steps(p) /\ Gone(rows, f.id) =>
              /\ rows' = rows /\ rows'[f.id].deletedAt # NoTime
              /\ frames'[p].ret.err = OK /\ ~frames'[p].ret.val.nil
              /\ frames'[p].ret.val.v[1].deletedAt = NoTime
              /\ frames'[p].ret.val.v[1].id = f.id]_vars

\* an Update and a Delete of the same id both returned success, the Update
\* with a book whose deletedAt is absent although its UPDATE found the row
\* soft-deleted
C26_Witness ==
    \E p, q \in Procs :
        /\ p # q
        /\ Done(frames[p]) /\ frames[p].op = "Update" /\ frames[p].ret.err = OK
        /\ frames[p].gone
        /\ Done(frames[q]) /\ frames[q].op = "Delete" /\ frames[q].ret.err = OK
        /\ frames[q].id = frames[p].id
        /\ frames[p].ret.val.v[1].deletedAt = NoTime
        /\ rows[frames[p].id].deletedAt # NoTime

----------------------------------------------------------------------------
(* C27 *)

Keys == {getByIDCacheKey(id) : id \in Ids} \cup {AllKey} \cup AuthorKeys

\* a detached goroutine has still to run this command on this key
Pending(cmd, key) ==
    \E task \in BagToSet(tasks) :
        \E i \in 1..Len(task) : task[i].cmd = cmd /\ task[i].key = key

\* the number of commands the detached goroutines have still to run
Commands(bag) ==
    Cardinality(UNION {{<<task, i, n>> : i \in 1..Len(task), n \in 1..CopiesIn(task, bag)} :
                         task \in BagToSet(bag)})

\* C27: the step of a call that starts a goroutine is the step that returns,
\* with every command of the goroutine still to run; the commands to run
\* become fewer only one at a time and by a step of the scheduler, never by a
\* step of a call or the cancellation of a caller's context; and with Redis
\* answering and the goroutines scheduled fairly, whatever contexts are
\* cancelled, a Delete that a goroutine has to run leads to its key being
\* absent from the cache and a Set to its key being present.
C27_DetachedTasksRun ==
    /\ [][\A p \in Procs :
             Len(frames'[p].spawned) > Len(frames[p].spawned) =>
               /\ Done(frames'[p])
               /\ \E task \in BagToSet(tasks') :
                     /\ Len(task) = Len(frames'[p].spawned[1])
                     /\ \A i \in 1..Len(task) :
                           /\ task[i].cmd = frames'[p].spawned[1][i].cmd
                           /\ task[i].key = frames'[p].spawned[1][i].key]_vars
    /\ [][\/ Commands(tasks') >= Commands(tasks)
           \/ (frames' = frames /\ Commands(tasks') = Commands(tasks) - 1)]_vars
    /\ \A k \in Keys : Pending("Delete", k) ~> (k \notin DOMAIN cache)
    /\ \A k \in Keys : Pending("Set", k) ~> (k \in DOMAIN cache)

\* the goroutine of an Update that has returned has both its Deletes to run,
\* its caller's context is cancelled, and the book's entry is in the cache
C27_Witness ==
    \E p \in Procs, task \in BagToSet(tasks) :
        /\ Done(frames[p]) /\ frames[p].op = "Update" /\ frames[p].spawned # <<>>
        /\ Len(task) = 2 /\ Head(task).by = "Update" /\ Head(task).cancelled
        /\ Head(task).key = getByIDCacheKey(frames[p].id)
        /\ Head(task).key \in DOMAIN cache

----------------------------------------------------------------------------
(* C28 *)

\* C28: a GetByID whose Cache.Get missed or failed reads the Repository; a
\* GetByID of a service with a cache whose Repository read succeeded has
\* started exactly one goroutine, a single Cache.Set of the book read under
\* books:books:getbyid:<id> with a TTL of one hour; a GetByID whose read
\* failed (NotFound included) or that made no read has started none; every
\* Cache.Set still to run and every entry in the cache carry the one hour
\* TTL, and an entry under a getbyid key holds an active book read from the
\* table under that id.
C28_PopulateOnSuccessfulRead ==
    /\ \A p \in Procs :
          LET f == frames[p]
          IN Done(f) /\ f.op = "GetByID" =>
               /\ f.cerr \in {ErrCacheMiss, ErrCacheFailure} => ReadRepo(f)
               /\ hasCache /\ ReadRepo(f) /\ f.res.err = OK =>
                     /\ ~f.res.val.nil /\ f.res.val.v[1].id = f.id
                     /\ f.spawned = <<<<[cmd |-> "Set", key |-> IdKey(f.id), val |-> f.res.val,
                                         ttl |-> Hour, ctx |-> "Background"]>>>>
               /\ ~ReadRepo(f) \/ f.res.err # OK => f.spawned = <<>>
    /\ \A task \in BagToSet(tasks) : \A i \in 1..Len(task) :
          task[i].cmd = "Set" => task[i].ttl = Hour
    /\ \A k \in DOMAIN cache : cache[k].ttl = Hour
    /\ \A id \in Ids :
          IdKey(id) \in DOMAIN cache =>
            LET book == Unmarshal(cache[IdKey(id)].val, "Book").val.v[1]
            IN book.id = id /\ book.deletedAt = NoTime /\ id \in 1..Len(rows)

\* a GetByID whose Cache.Get missed found no book and started no goroutine,
\* while the entry of a book read earlier is in the cache
C28_Witness ==
    \E p \in Procs :
        LET f == frames[p]
        IN /\ Done(f) /\ f.op = "GetByID" /\ f.cerr = ErrCacheMiss
           /\ f.res.err = ErrBookNotFound /\ f.spawned = <<>>
           /\ \E id \in Ids : IdKey(id) \in DOMAIN cache /\ cache[IdKey(id)].ttl = Hour

----------------------------------------------------------------------------
(* C29 *)

\* author arguments: none, the empty string, the authors of the model and
\* strings that resemble parts of other keys
AuthorArgs == {Nil} \cup {Some(a) : a \in Authors \cup {"", "all", "ll", "1", "uthor:A1"}}

IdArgs == 0..(MaxRows + 9)

\* the formats of the keys over these arguments
KeyFormats ==
    /\ \A id \in IdArgs : getByIDCacheKey(id) = "books:books:getbyid:" \o ToString(id)
    /\ \A a \in AuthorArgs :
          getAllCacheKey(a) = IF a = Nil \/ a = Some("") THEN "books:books:getall:all"
                              ELSE "books:books:getall:author:" \o a[1]

\* distinct arguments have distinct keys
KeysDistinct ==
    /\ \A i, j \in IdArgs : getByIDCacheKey(i) = getByIDCacheKey(j) => i = j
    /\ \A a, b \in AuthorArgs \ {Nil, Some("")} :
          getAllCacheKey(a) = getAllCacheKey(b) => a = b
    /\ \A a \in AuthorArgs \ {Nil, Some("")} :
          /\ getAllCacheKey(a) # getAllCacheKey(Nil)
          /\ \A i \in IdArgs : getAllCacheKey(a) # getByIDCacheKey(i)

\* C29: the key of a single book is books:books:getbyid:<id>, the key of the
\* list without an author or with the empty author is books:books:getall:all
\* and the key of the list of a non-empty author is
\* books:books:getall:author:<author>, also for the keys that the calls hand
\* to Cache.Get; distinct ids have distinct keys, distinct non-empty authors
\* have distinct keys, and the key of a non-empty author is neither the key
\* of the unfiltered list nor the key of a book.
C29_KeysAreInjective ==
    /\ KeyFormats
    /\ KeysDistinct
    /\ \A p \in Procs :
          LET f == frames[p]
          IN Consulted(f) =>
               f.key = IF f.op = "GetByID" THEN "books:books:getbyid:" \o ToString(f.id)
                       ELSE IF AuthorOf(f) = "" THEN "books:books:getall:all"
                       ELSE "books:books:getall:author:" \o AuthorOf(f)

\* the cache holds the unfiltered list, the list of author A1 and book 1
\* under three keys
C29_Witness ==
    /\ {"books:books:getall:all", "books:books:getall:author:A1", "books:books:getbyid:1"}
          \subseteq DOMAIN cache
    /\ cache["books:books:getall:all"].val.t = "array"
    /\ cache["books:books:getbyid:1"].val.t # "array"

----------------------------------------------------------------------------
(* C30 *)

\* C30: whatever id, createdAt, updatedAt and deletedAt the request carries,
\* a Create stamps createdAt and updatedAt with the clock reading of the call,
\* and the INSERT of a Create that returns success adds one row and changes
\* no other: the new row has the id the Create returns, which no row of the
\* table had, active or soft-deleted, createdAt and updatedAt both equal to
\* that clock reading (at the microsecond precision of the columns), and no
\* deletedAt.
C30_CreateAssignsIdentityAndLifecycle ==
    [][\A p \in Procs :
         /\ frames[p].pc # "Create:repo" /\ frames'[p].pc = "Create:repo" =>
               /\ frames'[p].book.createdAt = now'
               /\ frames'[p].book.updatedAt = now'
         /\ frames[p].pc = "Create:repo" /\ Steps(p) /\ frames'[p].ret.err = OK =>
               LET new == rows'[Len(rows')]
               IN /\ Len(rows') = Len(rows) + 1
                  /\ \A i \in 1..Len(rows) : rows'[i] = rows[i] /\ rows[i].id # new.id
                  /\ new.id = frames'[p].ret.val.v[1].id
                  /\ new.createdAt = Datetime6(frames[p].book.createdAt)
                  /\ new.updatedAt = new.createdAt
                  /\ new.deletedAt = NoTime]_vars

\* a Create whose request carried id 7 and a deletedAt returned success; its
\* row has id 2 and no deletedAt, beside a soft-deleted row 1
C30_Witness ==
    \E p \in Procs :
        LET f == frames[p]
        IN /\ Done(f) /\ f.op = "Create" /\ f.ret.err = OK
           /\ f.book.id = 7 /\ f.book.deletedAt # NoTime
           /\ Len(rows) = 2 /\ rows[2].id = 2 /\ rows[2].deletedAt = NoTime
           /\ rows[2].createdAt = rows[2].updatedAt
           /\ rows[1].deletedAt # NoTime

----------------------------------------------------------------------------
(* C31 *)

\* C31: an Update whose request has a title, an author and no publishedAt
\* reads the clock for it before it calls the Repository; the UPDATE of an
\* Update that finds its row active and its triple held by no other row
\* succeeds when the storage engine answers, and leaves the row with the publishedAt of the
\* frame, the clock reading when none was supplied (at the microsecond
\* precision of the column), whatever publishedAt the row had.
C31_PublishedAtDefaultsToNow ==
    [][\A p \in Procs :
         LET f == frames[p]
             g == frames'[p]
         IN /\ nops' = nops + 1 /\ Steps(p) /\ g.op = "Update" /\ ~Invalid(g.book) =>
                 /\ g.pc = IF g.book.publishedAt = NoTime THEN "Update:published"
                                                          ELSE "Update:fetch"
                 /\ g.trace = <<>> /\ rows' = rows
            /\ f.pc = "Update:published" /\ Steps(p) =>
                 /\ g.pc = "Update:fetch" /\ g.trace = <<>> /\ rows' = rows
                 /\ g.book = [f.book EXCEPT !.publishedAt = now']
                 /\ now' >= now /\ now' # NoTime
            /\ f.pc = "Update:exec" /\ Steps(p) /\ ~Gone(rows, f.id)
                 /\ ~DuplicateKey(rows, f.book, f.id) /\ g.res.err # ErrStorage =>
                 /\ g.ret.err = OK
                 /\ rows'[f.id].publishedAt = Datetime6(f.book.publishedAt)
                 /\ g.ret.val.v[1].publishedAt = f.book.publishedAt
                 /\ f.book.publishedAt # NoTime]_vars

\* an Update without publishedAt returned success; the row holds the clock
\* reading taken for it, later than the publishedAt it had
C31_Witness ==
    \E p \in Procs :
        LET f == frames[p]
        IN /\ Done(f) /\ f.op = "Update" /\ f.ret.err = OK
           /\ \E b \in UpdateInputs :
                 /\ b.publishedAt = NoTime
                 /\ f.book = [b EXCEPT !.publishedAt = now, !.updatedAt = f.book.updatedAt]
           /\ rows[f.id].publishedAt = Datetime6(now)
           /\ rows[f.id].publishedAt > SeedRows[1].publishedAt
           /\ f.book.updatedAt < f.book.publishedAt

----------------------------------------------------------------------------
(* C32 *)

\* the request fails the handler's validation
FailsValidation(op, book) ==
    /\ op \in {"Create", "Update"}
    /\ Invalid(book) \/ (op = "Create" /\ book.publishedAt = NoTime)

\* C32: the response to a request whose service call has returned carries
\* 400 when the request fails the handler's validation or the service
\* returned InvalidData or AlreadyExists, 404 when it returned NotFound, 500
\* when it returned any other error, and otherwise 201 with the book for
\* Create, 200 with the book or the list for GetByID, GetAll and Update, and
\* 204 with no body for Delete.
C32_StatusOfOutcome ==
    \A p \in Procs :
        LET f == frames[p]
            r == Respond(f.op, f.book, f.raised, f.ret.val)
        IN Done(f) =>
             /\ r.code =
                  IF FailsValidation(f.op, f.book) THEN 400
                  ELSE IF f.ret.err \in {ErrInvalidBookData, ErrBookAlreadyExists} THEN 400
                  ELSE IF f.ret.err = ErrBookNotFound THEN 404
                  ELSE IF f.ret.err # OK THEN 500
                  ELSE IF f.op = "Create" THEN 201
                  ELSE IF f.op = "Delete" THEN 204
                  ELSE 200
             /\ r.code \in {200, 201} => r.body = f.ret.val /\ ~r.body.nil
             /\ r.code \notin {200, 201} => r.body = NoValue

\* an Update that the Repository refused with AlreadyExists is answered with
\* 400 and no book
C32_Witness ==
    \E p \in Procs :
        LET f == frames[p]
        IN /\ Done(f) /\ f.op = "Update" /\ f.res.err = ErrBookAlreadyExists
           /\ ReadRepo(f)
           /\ ~FailsValidation(f.op, f.book)
           /\ Respond(f.op, f.book, f.raised, f.ret.val) = [code |-> 400, body |-> NoValue]

----------------------------------------------------------------------------
(* C33 *)

\* the document a GetAll that returned success is answered with
ResponseOf(f) == GetAllBooksResponse(f.ret.val.v, f.page, f.limit, f.hasPage, f.hasLimit)

\* C33: the response of a successful GetAll carries the books; it carries
\* limit, with the value of the parameter, exactly when the limit parameter is
\* a positive integer, and page, with the value of the parameter, exactly
\* when both the page and the limit parameter are positive integers.
C33_EchoesRecognizedParameters ==
    \A p \in Procs :
        LET f == frames[p]
            r == ResponseOf(f)
        IN Done(f) /\ f.op = "GetAll" /\ f.ret.err = OK =>
             /\ "books" \in DOMAIN r /\ r["books"] = f.ret.val.v
             /\ "limit" \in DOMAIN r <=> Positive(f.limitStr)
             /\ "limit" \in DOMAIN r => r["limit"] = ValueOf(f.limitStr)
             /\ "page" \in DOMAIN r <=> Positive(f.pageStr) /\ Positive(f.limitStr)
             /\ "page" \in DOMAIN r => r["page"] = ValueOf(f.pageStr)

\* a GetAll with page 2 and no limit was answered with the books alone
C33_Witness ==
    \E p \in Procs :
        LET f == frames[p]
        IN /\ Done(f) /\ f.op = "GetAll" /\ f.ret.err = OK
           /\ f.pageStr = Numeral(2) /\ f.limitStr = <<>>
           /\ DOMAIN ResponseOf(f) = {"books"}
           /\ Len(ResponseOf(f)["books"]) > 0

----------------------------------------------------------------------------
(* C34 *)

\* C34: when calls come one at a time, each after the goroutine of the call
\* before has run its commands against a cache that answers, a GetByID that
\* has returned, from the cache or from a Repository read the storage engine
\* answered, has returned the book and the error that BookRepository.GetByID
\* gives on the table, and a GetAll without author, page and limit has
\* returned the list that BookRepository.GetAll gives on the table.
C34_QuietReadsAreFresh ==
    \A p \in Procs :
        LET f == frames[p]
        IN Done(f) /\ (Hit(f) \/ f.res.err # ErrStorage) =>
             /\ f.op = "GetByID" => f.ret = RepoGetByID(rows, f.id)
             /\ f.op = "GetAll" /\ f.author = Nil /\ f.limit = 0 /\ f.offset = 0 =>
                   f.ret = [err |-> OK, val |-> RepoGetAll(rows, Nil, 0, 0)]

\* a GetByID returned from the cache the book as an Update before it left it
C34_Witness ==
    \E p \in Procs :
        LET f == frames[p]
        IN /\ Done(f) /\ Hit(f) /\ f.op = "GetByID" /\ ver > 0
           /\ f.ret.val.v[1] = rows[f.id] /\ rows[f.id] # SeedRows[1]

----------------------------------------------------------------------------
(* C35 *)

\* C35: a goroutine that has a Cache.Set to run is started only by the step
\* of a GetByID or a GetAll that reads the table: its Set carries, under the
\* getbyid key of the id, the active row BookRepository.GetByID finds in the
\* table at that step, or, under the getall key of the author, the list
\* BookRepository.GetAll(author, 0, 0) gives on the table at that step; and a
\* cache entry appears or changes only by such a Set, to the document of the
\* value it carries.  Hence every entry is a value the table held.
C35_EntriesAreSnapshots ==
    [][/\ \A task \in BagToSet(tasks') :
            CopiesIn(task, tasks') > CopiesIn(task, tasks)
              /\ (\E i \in 1..Len(task) : task[i].cmd = "Set") =>
              /\ Len(task) = 1 /\ rows' = rows
              /\ \E p \in Procs :
                    LET g == frames'[p]
                        c == Head(task)
                    IN /\ Steps(p)
                       /\ \/ /\ g.op = "GetByID"
                             /\ c.key = "books:books:getbyid:" \o ToString(g.id)
                             /\ ~Gone(rows, g.id)
                             /\ c.val = BookPtr(rows[g.id])
                          \/ /\ g.op = "GetAll"
                             /\ c.key = IF AuthorOf(g) = "" THEN "books:books:getall:all"
                                        ELSE "books:books:getall:author:" \o AuthorOf(g)
                             /\ c.val = RepoGetAll(rows, g.author, 0, 0)
                             /\ ExactListing(c.val.v, rows, AuthorOf(g))
      /\ \A k \in DOMAIN cache' :
              k \notin DOMAIN cache \/ cache'[k] # cache[k] =>
                \E task \in BagToSet(tasks) :
                    /\ Head(task).cmd = "Set" /\ Head(task).key = k
                    /\ cache'[k].val = Marshal(Head(task).val)
                    /\ CopiesIn(task, tasks') < CopiesIn(task, tasks)]_vars

\* the cache holds book 1 as it was before an Update changed its row
C35_Witness ==
    /\ IdKey(1) \in DOMAIN cache
    /\ cache[IdKey(1)].val = MarshalBook(SeedRows[1])
    /\ rows[1] # SeedRows[1] /\ rows[1].deletedAt = NoTime

----------------------------------------------------------------------------
(* C36 *)
\* C36: nothing orders a populate after the invalidations of later
\* mutations. A pending Cache.Set that runs while Redis answers stores its
\* value whatever happened to the table since the read: also when an Update
\* that changed the table after the read has already completed its
\* invalidation (the entry is then marked late). A late entry is older than
\* the completed invalidation, which is no newer than the table.
C36_LatePopulateOverwrites ==
    /\ [](\A k \in DOMAIN cache :
            cache[k].h.late => cache[k].h.ver < settled /\ settled <= ver)
    /\ [][\A task \in BagToSet(tasks) :
            (/\ Head(task).cmd = "Set"
             /\ BagCardinality(tasks') < BagCardinality(tasks)
             /\ CopiesIn(task, tasks') < CopiesIn(task, tasks))
            => LET c == Head(task)
               IN /\ c.key \in DOMAIN cache'
                  /\ cache'[c.key].val = Marshal(c.val)
                  /\ cache'[c.key].h.ver = c.ver
                  /\ cache'[c.key].h.late = (settled > c.ver)]_vars

\* the populate of a GetByID that read before an Update ran after the
\* Update's invalidation: the entry holds the row as it was before the
\* Update, and no call and no cache command is pending
C36_Witness ==
    /\ IdKey(1) \in DOMAIN cache
    /\ cache[IdKey(1)].h.late
    /\ cache[IdKey(1)].val = MarshalBook(SeedRows[1])
    /\ rows[1] # SeedRows[1]
    /\ rows[1].deletedAt = NoTime
    /\ tasks = EmptyBag
    /\ \A p \in DOMAIN frames : ~Active(frames[p])

----------------------------------------------------------------------------
(* C37 *)
\* C37: the step in which Create, Update or Delete returns after its
\* Repository call failed (NotFound, AlreadyExists or a storage failure)
\* returns that error and starts no background task: the call spawned
\* nothing, no cache command is added and the cache is left as it was.
C37_FailedMutationSpawnsNothing ==
    [][\A p \in Procs :
         LET f == frames[p]
             g == frames'[p]
         IN (/\ Active(f) /\ Done(g)
             /\ g.op \in {"Create", "Update", "Delete"}
             /\ \E i \in 1..Len(g.trace) : g.trace[i] = RepoCallOf(g.op)
             /\ g.res.err # OK)
            => /\ g.ret.err = g.res.err
               /\ g.spawned = <<>>
               /\ tasks' = tasks
               /\ cache' = cache]_vars

\* on a service whose cache holds the book's entry, a Delete of an active
\* book met a storage failure and returned, with nothing spawned
C37_Witness ==
    \E p \in Procs :
        LET f == frames[p]
        IN /\ hasCache /\ Done(f) /\ f.op = "Delete"
           /\ f.res.err = ErrStorage
           /\ f.trace = <<"repo.Delete">>
           /\ f.id \in DOMAIN rows /\ rows[f.id].deletedAt = NoTime
           /\ f.spawned = <<>>
           /\ getByIDCacheKey(f.id) \in DOMAIN cache

----------------------------------------------------------------------------
(* C38 *)
\* C38 as stated: of two overlapping Delete calls on the same id, at most one
\* returns success, and when one did the other returned NotFound. (Two
\* Deletes of one id that both found the row active overlapped: a row
\* never becomes active again.)
C38_OneDeleteSucceeds ==
    \A p, q \in Procs :
        LET f == frames[p]
            g == frames[q]
        IN p # q /\ Done(f) /\ Done(g) /\ f.op = "Delete" /\ g.op = "Delete"
             /\ f.id = g.id /\ f.ret.err = OK
             => g.ret.err = ErrBookNotFound

----------------------------------------------------------------------------
(* C39 *)
\* C39 as stated: the step in which an Update runs its UPDATE and returns
\* success returns a book equal in every field to the row of that id as the
\* step leaves it.
C39_ReturnsStoredRow ==
    [][\A p \in Procs :
         LET f == frames[p]
             g == frames'[p]
         IN f.pc = "Update:exec" /\ Steps(p) /\ g.ret.err = OK
              /\ f.id \in 1..Len(rows')
              => g.ret.val = BookPtr(rows'[f.id])]_vars

----------------------------------------------------------------------------
(* C40 *)
\* C40 as stated: a GetAll whose page and limit are both recognized reaches
\* the service with an offset that is not negative and is the product
\* (page - 1) * limit of the integers, and what it reads from the Repository
\* are the rows after that many.
C40_OffsetIsTheProduct ==
    \A p \in Procs :
        LET f == frames[p]
        IN f.op = "GetAll" /\ f.hasPage /\ f.hasLimit /\ f.page >= 1 /\ f.limit >= 1
             => /\ f.offset >= 0
                /\ f.offset = (f.page - 1) * f.limit
                /\ Done(f) /\ f.ret.err = OK /\ f.res.err = OK
                     => \/ f.ret.val.v = <<>>
                        \/ Len(f.ret.val.v) + (f.page - 1) * f.limit <= Len(rows)

====
